---- MODULE Spec2Model ----
(***************************************************************************)
(* Model of the daily asset register (js/data.js, js/app.js, js/ui.js) and *)
(* of the guest management page (js/guest-management.js).                  *)
(*                                                                         *)
(* Text is modelled as a sequence of one-character strings, so that trim,  *)
(* toUpperCase, toLowerCase, length and the format tests are computed.     *)
(* A timestamp is the integer HHMMSS of the wall clock; only the order of  *)
(* timestamps is used by the code (Date subtraction inside sort).          *)
(* Timers are pending callbacks; a pending callback may run at any later   *)
(* moment, callbacks of one kind run in the order they were scheduled.     *)
(***************************************************************************)
EXTENDS Integers, Sequences, FiniteSets, TLC

\* ------------------------------------------------------------------ bounds
MaxNew == 1          \* transactions added to the store between two reloads
MaxPending == 1      \* pending callbacks of one kind (refresh, export)
MaxLen == 4          \* length of the lists the watchlist functions are applied to
MaxSettle == 2       \* pending 200 ms settle callbacks of one device tag field
MaxScans == 2        \* device scans per page load (cap on the device counters)
MaxCommits == 1      \* guest transactions processed per page load
MaxTime == 2600      \* ms of the guest page's clock that the scanner detection is followed
MaxEvents == 5       \* events of the operator on the visitor pages per page load

\* ------------------------------------------------------------------- text
UpperLetters ==
  <<"A","B","C","D","E","F","G","H","I","J","K","L","M",
    "N","O","P","Q","R","S","T","U","V","W","X","Y","Z">>

LowerLetters ==
  <<"a","b","c","d","e","f","g","h","i","j","k","l","m",
    "n","o","p","q","r","s","t","u","v","w","x","y","z">>

Digits == {"0","1","2","3","4","5","6","7","8","9"}

IsLetter(c) == \E i \in 1..26 : c = UpperLetters[i] \/ c = LowerLetters[i]

ToUpperChar(c) ==
  IF \E i \in 1..26 : LowerLetters[i] = c
  THEN UpperLetters[CHOOSE i \in 1..26 : LowerLetters[i] = c]
  ELSE c

ToLowerChar(c) ==
  IF \E i \in 1..26 : UpperLetters[i] = c
  THEN LowerLetters[CHOOSE i \in 1..26 : UpperLetters[i] = c]
  ELSE c

toUpperCase(s) == [i \in 1..Len(s) |-> ToUpperChar(s[i])]

toLowerCase(s) == [i \in 1..Len(s) |-> ToLowerChar(s[i])]

RECURSIVE trimStart(_)
trimStart(s) == IF s # <<>> /\ Head(s) = " " THEN trimStart(Tail(s)) ELSE s

RECURSIVE trimEnd(_)
trimEnd(s) ==
  IF s # <<>> /\ s[Len(s)] = " " THEN trimEnd(SubSeq(s, 1, Len(s) - 1)) ELSE s

trim(s) == trimEnd(trimStart(s))

startsWith(s, p) == Len(s) >= Len(p) /\ SubSeq(s, 1, Len(p)) = p

\* ----------------------------------------------------------- list helpers
\* Array.prototype.sort with the comparator (a, b) => new Date(b.timestamp) -
\* new Date(a.timestamp): descending by timestamp, stable (ECMAScript 2019).
RECURSIVE InsertDesc(_, _)
InsertDesc(x, s) ==
  IF s = <<>> THEN <<x>>
  ELSE IF Head(s).timestamp >= x.timestamp
       THEN <<Head(s)>> \o InsertDesc(x, Tail(s))
       ELSE <<x>> \o s

RECURSIVE SortDesc(_)
SortDesc(s) ==
  IF s = <<>> THEN <<>>
  ELSE InsertDesc(s[Len(s)], SortDesc(SubSeq(s, 1, Len(s) - 1)))

\* ------------------------------------------------------- js/data.js: seed
mockTransactions ==
  <<
  [id |-> <<"txn", 1>>, timestamp |-> 105431, cardHolder |-> <<"A","l","e","x"," ","G","i","t","t","a">>,
   cardId |-> <<"N","V","-","C","O","N","-","L","A","P","-","9","8","7","6">>,
   assetTag |-> <<"N","V","-","C","O","N","-","M","A","K","-","9","4","6","8">>,
   type |-> "OUT", status |-> "authorized", isAuthorized |-> TRUE],
  [id |-> <<"txn", 2>>, timestamp |-> 105215, cardHolder |-> <<"S","a","r","a","h"," ","N","a","k","a","t","o">>,
   cardId |-> <<"N","V","-","C","O","N","-","L","A","P","-","8","7","6","5">>,
   assetTag |-> <<"N","V","-","C","O","N","-","M","A","K","-","8","4","2","1">>,
   type |-> "IN", status |-> "authorized", isAuthorized |-> TRUE],
  [id |-> <<"txn", 3>>, timestamp |-> 104822, cardHolder |-> <<"J","o","h","n"," ","O","k","e","l","l","o">>,
   cardId |-> <<"N","V","-","C","O","N","-","L","A","P","-","7","6","5","4">>,
   assetTag |-> <<"N","V","-","C","O","N","-","M","A","K","-","7","3","9","2">>,
   type |-> "OUT", status |-> "authorized", isAuthorized |-> TRUE],
  [id |-> <<"txn", 4>>, timestamp |-> 104510, cardHolder |-> <<"M","a","r","y"," ","N","a","m","b","i">>,
   cardId |-> <<"N","V","-","C","O","N","-","L","A","P","-","6","5","4","3">>,
   assetTag |-> <<"N","V","-","C","O","N","-","M","A","K","-","6","2","8","4">>,
   type |-> "IN", status |-> "authorized", isAuthorized |-> TRUE],
  [id |-> <<"txn", 5>>, timestamp |-> 104233, cardHolder |-> <<"D","a","v","i","d"," ","M","u","s","o","k","e">>,
   cardId |-> <<"N","V","-","C","O","N","-","L","A","P","-","5","4","3","2">>,
   assetTag |-> <<"N","V","-","C","O","N","-","M","A","K","-","5","1","7","6">>,
   type |-> "OUT", status |-> "unauthorized", isAuthorized |-> FALSE],
  [id |-> <<"txn", 6>>, timestamp |-> 103845, cardHolder |-> <<"G","r","a","c","e"," ","A","u","m","a">>,
   cardId |-> <<"N","V","-","C","O","N","-","L","A","P","-","4","3","2","1">>,
   assetTag |-> <<"N","V","-","C","O","N","-","M","A","K","-","4","0","6","8">>,
   type |-> "IN", status |-> "authorized", isAuthorized |-> TRUE],
  [id |-> <<"txn", 7>>, timestamp |-> 103518, cardHolder |-> <<"P","e","t","e","r"," ","S","s","e","m","a","k","u","l","a">>,
   cardId |-> <<"N","V","-","C","O","N","-","L","A","P","-","3","2","1","0">>,
   assetTag |-> <<"N","V","-","C","O","N","-","M","A","K","-","3","9","5","0">>,
   type |-> "OUT", status |-> "authorized", isAuthorized |-> TRUE],
  [id |-> <<"txn", 8>>, timestamp |-> 103052, cardHolder |-> <<"R","e","b","e","c","c","a"," ","N","a","l","w","a","n","g","a">>,
   cardId |-> <<"N","V","-","C","O","N","-","L","A","P","-","2","1","0","9">>,
   assetTag |-> <<"N","V","-","C","O","N","-","M","A","K","-","2","8","4","2">>,
   type |-> "IN", status |-> "authorized", isAuthorized |-> TRUE],
  [id |-> <<"txn", 9>>, timestamp |-> 102540, cardHolder |-> <<"J","a","m","e","s"," ","K","a","t","o">>,
   cardId |-> <<"N","V","-","C","O","N","-","L","A","P","-","1","0","9","8">>,
   assetTag |-> <<"N","V","-","C","O","N","-","M","A","K","-","1","7","3","4">>,
   type |-> "OUT", status |-> "authorized", isAuthorized |-> TRUE],
  [id |-> <<"txn", 10>>, timestamp |-> 102015, cardHolder |-> <<"C","h","r","i","s","t","i","n","e"," ","N","a","b","i","r","y","e">>,
   cardId |-> <<"N","V","-","C","O","N","-","L","A","P","-","0","9","8","7">>,
   assetTag |-> <<"N","V","-","C","O","N","-","M","A","K","-","0","6","2","6">>,
   type |-> "IN", status |-> "authorized", isAuthorized |-> TRUE],
  [id |-> <<"txn", 11>>, timestamp |-> 101530, cardHolder |-> <<"R","o","b","e","r","t"," ","M","u","g","i","s","h","a">>,
   cardId |-> <<"N","V","-","C","O","N","-","L","A","P","-","9","8","7","1">>,
   assetTag |-> <<"N","V","-","C","O","N","-","M","A","K","-","9","5","1","8">>,
   type |-> "OUT", status |-> "authorized", isAuthorized |-> TRUE],
  [id |-> <<"txn", 12>>, timestamp |-> 101005, cardHolder |-> <<"A","g","n","e","s"," ","N","a","k","a","b","u","g","o">>,
   cardId |-> <<"N","V","-","C","O","N","-","L","A","P","-","8","7","6","2">>,
   assetTag |-> <<"N","V","-","C","O","N","-","M","A","K","-","8","4","1","0">>,
   type |-> "IN", status |-> "authorized", isAuthorized |-> TRUE]
  >>

\* Wall-clock readings (new Date()) the page can see.  The seed records carry
\* fixed timestamps of 2026-01-29; nothing in the code relates the clock to
\* them, so the clock may read less than the newest seed timestamp (105431).
\* Within one page session the clock does not run backwards.
Times == {104000, 110000}

VARIABLES
  \* --- register page (appState of js/data.js and the DOM it is bound to)
  transactions,     \* appState.transactions
  statistics,       \* appState.statistics (lastUpdated left out: display only)
  currentFilter,    \* appState.currentFilter
  searchQuery,      \* appState.searchQuery
  currentMode,      \* appState.currentMode
  traceAsset,       \* value of the search box #traceAsset
  searchTimer,      \* pending calls of the debounced handleSearchInput
  refreshTimers,    \* number of pending handleRefresh callbacks (800 ms)
  exportTimers,     \* number of pending handleExport callbacks (200 ms)
  tableBody,        \* the transactions of the rows of #tableBody, top to bottom
  clock             \* last wall-clock reading

regVars == <<transactions, statistics, currentFilter, searchQuery, currentMode,
             traceAsset, searchTimer, refreshTimers, exportTimers, tableBody, clock>>

\* ------------------------------------------------------ js/ui.js functions
\* a filter whose 'out' kind compares the type with the name of the kind
filterTransactions_kindAsType(txs, filter) ==
  CASE filter = "authorized"   -> SelectSeq(txs, LAMBDA t : t.isAuthorized = TRUE)
    [] filter = "unauthorized" -> SelectSeq(txs, LAMBDA t : t.isAuthorized = FALSE)
    [] filter = "in"           -> SelectSeq(txs, LAMBDA t : t.type = "IN")
    [] filter = "out"          -> SelectSeq(txs, LAMBDA t : t.type = "out")
    [] OTHER                   -> txs

\* filterTransactions returns a new array for the four narrowing kinds and the
\* argument array itself for 'all' (and for any other value).
filterTransactions(txs, filter) ==
  CASE filter = "authorized"   -> SelectSeq(txs, LAMBDA t : t.isAuthorized = TRUE)
    [] filter = "unauthorized" -> SelectSeq(txs, LAMBDA t : t.isAuthorized = FALSE)
    [] filter = "in"           -> SelectSeq(txs, LAMBDA t : t.type = "IN")
    [] filter = "out"          -> SelectSeq(txs, LAMBDA t : t.type = "OUT")
    [] OTHER                   -> txs

\* ---------------------------------------------------- js/data.js functions
calculateStatistics_filteredView(txs) ==
  LET view == filterTransactions(txs, currentFilter) IN
  [authorizedToday |-> Len(SelectSeq(view, LAMBDA t : t.isAuthorized = TRUE)),
   unauthorized    |-> Len(SelectSeq(view, LAMBDA t : t.isAuthorized = FALSE)),
   totalScans      |-> Len(view)]

calculateStatistics(txs) ==
  [authorizedToday |-> Len(SelectSeq(txs, LAMBDA t : t.isAuthorized = TRUE)),
   unauthorized    |-> Len(SelectSeq(txs, LAMBDA t : t.isAuthorized = FALSE)),
   totalScans      |-> Len(txs)]

\* updateStateStatistics: appState.statistics = calculateStatistics(appState.transactions)
updateStateStatistics(txs) == calculateStatistics(txs)

\* a reload that leaves the store as it is
reloadTransactionData_keepsStore == transactions

\* reloadTransactionData: appState.transactions = [...mockTransactions]
reloadTransactionData == mockTransactions

\* ------------------------------------------- js/ui.js: rendering, export
FilterAliasesArgument(filter) ==
  filter \notin {"authorized", "unauthorized", "in", "out"}

\* renderTable(transactions, filter) and exportTableData() sort the array that
\* filterTransactions returned, in place.  When that array is the argument
\* itself the argument is left sorted; the value below is the array passed in
\* as it is after the call.
SortedInPlace(txs, filter) ==
  IF FilterAliasesArgument(filter) THEN SortDesc(filterTransactions(txs, filter))
  ELSE txs

renderTable(txs, filter) == SortedInPlace(txs, filter)

exportTableData(txs, filter) == SortedInPlace(txs, filter)

MAX_VISIBLE_ROWS == 100

\* rows that show the transactions of every kind
displayTransactions_allKinds(txs, filter) ==
  LET sorted == SortDesc(txs)
  IN SubSeq(sorted, 1, IF Len(sorted) < MAX_VISIBLE_ROWS THEN Len(sorted)
                       ELSE MAX_VISIBLE_ROWS)

\* renderTable / renderTableWithSearch: the transactions the rows are made of
displayTransactions(txs, filter) ==
  LET sorted == SortDesc(filterTransactions(txs, filter))
  IN SubSeq(sorted, 1, IF Len(sorted) < MAX_VISIBLE_ROWS THEN Len(sorted)
                       ELSE MAX_VISIBLE_ROWS)

\* ------------------------------------------------------- js/app.js: search
\* String.prototype.includes
includes(s, sub) ==
  \E i \in 0..(Len(s) - Len(sub)) : SubSeq(s, i + 1, i + Len(sub)) = sub

\* a search that compares the fields as they are stored
searchTransactions_caseSensitive(txs, query) ==
  LET lowerQuery == toLowerCase(query) IN
  SelectSeq(txs, LAMBDA transaction :
    \/ includes(transaction.assetTag, lowerQuery)
    \/ includes(transaction.cardHolder, lowerQuery))

\* searchTransactions, with appState.transactions as the parameter txs
searchTransactions(txs, query) ==
  LET lowerQuery == toLowerCase(query) IN
  SelectSeq(txs, LAMBDA transaction :
    LET assetTag == toLowerCase(transaction.assetTag)
        cardHolder == toLowerCase(transaction.cardHolder)
    IN includes(assetTag, lowerQuery) \/ includes(cardHolder, lowerQuery))


\* ----------------------------------------------------- js/app.js: register
Filters == {"all", "authorized", "unauthorized", "in", "out"}

NVCONLAP == <<"N","V","-","C","O","N","-","L","A","P","-">>

\* contents of the card and device fields at the moment PROCESS is pressed
FieldInputs ==
  { <<>>,
    <<"B","A","D","-","I","D">>,
    <<" ">> \o NVCONLAP \o <<"9","8","7","6">> }

\* contents typed into the search box
SearchInputs == { <<"M","A","K"," ">>, <<" ">> }

\* /^NV-[A-Z]{3}-[A-Z]{3}-\d{4}$/i
MatchesPattern(s) ==
  /\ Len(s) = 15
  /\ toUpperCase(SubSeq(s, 1, 2)) = <<"N", "V">>
  /\ s[3] = "-" /\ s[7] = "-" /\ s[11] = "-"
  /\ \A i \in {4, 5, 6, 8, 9, 10} : IsLetter(s[i])
  /\ \A i \in 12..15 : s[i] \in Digits

validateCardIdFormat(cardId) == trim(cardId) # <<>> /\ MatchesPattern(cardId)

validateDeviceTagFormat(deviceTag) == trim(deviceTag) # <<>> /\ MatchesPattern(deviceTag)

\* validateInputs reads and trims the two fields
validateInputs(cardField, deviceField) ==
  [isValid   |-> validateCardIdFormat(trim(cardField))
                 /\ validateDeviceTagFormat(trim(deviceField)),
   cardId    |-> trim(cardField),
   deviceTag |-> trim(deviceField)]

createTransaction(cardId, deviceTag, mode, now, rnd) ==
  [id |-> <<"txn", now, rnd>>, timestamp |-> now, cardHolder |-> <<"N","e","w"," ","U","s","e","r">>,
   cardId |-> cardId, assetTag |-> deviceTag,
   type |-> IF mode = "check-in" THEN "IN" ELSE "OUT",
   status |-> "authorized", isAuthorized |-> TRUE]

\* ------------------------------------------- state of the other components
VARIABLES
  wlInput,          \* a transaction list T
  wlState           \* calculateWatchlistState(T)

wlVars == <<wlInput, wlState>>

VARIABLES
  srchInput,           \* a transaction list T
  srchQuery,           \* a search query q
  srchFilter,          \* a filter kind f
  searchThenFilter,    \* filterTransactions(searchTransactions(T, q), f)
  filterThenSearch,    \* searchTransactions(filterTransactions(T, f), q)
  searchTwice          \* searchTransactions(searchTransactions(T, q), q)

srchVars == <<srchInput, srchQuery, srchFilter, searchThenFilter, filterThenSearch,
              searchTwice>>

VARIABLES
  location,         \* the document of the session tab: "login" or "register"
  ready,            \* its DOMContentLoaded handler has run and set the page up
  sessionStorage,   \* the items of window.sessionStorage, <<>> for a missing item
  authTimers,       \* login attempts waiting for the 1.5 s of handleLogin
  redirectTimers,   \* pending 1 s redirects to the register after a login
  loginBtn,         \* the login button: "enabled", "authenticating" or "success"
  errorMessage      \* the message of the error box of the login page, "" while hidden

sessVars ==
  <<location, ready, sessionStorage, authTimers, redirectTimers, loginBtn, errorMessage>>

VARIABLES
  page,              \* the document in the tab: "guest" (guest page) or "register"
  events,            \* events handled so far by the guest page or the modal
  \* --- guestState and the DOM of the guest page
  currentAction,     \* guestState.currentAction
  guestCard,         \* guestState.guestCard
  cardInput,         \* value of #guestCardNumber
  guestName,         \* guestState.guestName
  guestCompany,      \* guestState.guestCompany
  guestPurpose,      \* guestState.guestPurpose
  hostEmployee,      \* guestState.hostEmployee
  devices,           \* guestState.devices
  deviceCounter,     \* guestState.deviceCounter
  isProcessing,      \* guestState.isProcessing
  commitTimers,      \* pending 1.5 s callbacks of handleProcessGuest
  deviceInput,       \* value of #deviceTagInput
  settleTimers,      \* captured device tags of the pending 200 ms callbacks
  autoSwitchTimers,  \* pending 2 s callbacks of checkCardStatus
  resetTimers,       \* pending 3 s resetGuestForm callbacks
  toasts,            \* temporary messages on screen (removed after 3 s)
  validationErrors,  \* the list shown in #validationErrors, <<>> when hidden
  activeGuests,      \* guestState.activeGuests
  guestHistory,      \* guestState.guestHistory
  commits,           \* processed guest transactions; stands for new Date() at commit
  \* --- window.modalGuestState and the DOM of the visitor modal (js/app.js)
  modalOpen,         \* is #guestModalOverlay displayed
  modalDevices,      \* modalGuestState.devices
  modalDeviceCounter,\* modalGuestState.deviceCounter
  modalDeviceInput,  \* value of #modalDeviceTagInput
  modalSettleTimers, \* captured device tags of the pending 200 ms callbacks
  modalToasts        \* temporary messages on screen (removed after 3 s)

formVars == <<currentAction, guestCard, cardInput, guestName, guestCompany,
              guestPurpose, hostEmployee, devices, deviceCounter, isProcessing,
              commitTimers, deviceInput, settleTimers, autoSwitchTimers, resetTimers, toasts,
              validationErrors>>

registryVars == <<activeGuests, guestHistory, commits>>

guestVars == <<formVars, registryVars>>

modalVars == <<modalOpen, modalDevices, modalDeviceCounter, modalDeviceInput,
               modalSettleTimers, modalToasts>>

VARIABLES
  dateNow,          \* Date.now() on the guest page, in ms
  lastInputTime,    \* guestState.lastInputTime
  scannerTimeout,   \* the pending timer of guestState.scannerTimeout: <<>> when none
                    \* is pending, else <<[input, due]>> with the field it captured
  scanning,         \* the scanner fields whose classList holds 'scanning'
  classified,       \* the latest input event on a scanner field: <<>> before the
                    \* first, else <<[input, length, fast]>>
  inputTimes,       \* per scanner field, the time of its latest input event
  fastTimes         \* per scanner field, the time of its latest fast input event

detVars == <<dateNow, lastInputTime, scannerTimeout, scanning, classified, inputTimes,
             fastTimes>>

\* a handler of the register page runs: the other components stay as they are
OnRegisterPage ==
  /\ page = "register"
  /\ UNCHANGED <<wlVars, srchVars, sessVars, detVars, page, events, guestVars, modalVars>>

\* the watchlist functions are applied: the pages stay as they are
OnWatchlist ==
  UNCHANGED <<regVars, srchVars, sessVars, detVars, page, events, guestVars, modalVars>>

\* search and filter are applied to a list: the pages stay as they are
OnSearch ==
  UNCHANGED <<regVars, wlVars, sessVars, detVars, page, events, guestVars, modalVars>>

\* the login page or the authentication check runs: the rest stays as it is
OnSession ==
  UNCHANGED <<regVars, wlVars, srchVars, detVars, page, events, guestVars, modalVars>>

\* a timer callback of the guest page runs
OnGuestTimer ==
  /\ page = "guest"
  /\ UNCHANGED <<regVars, wlVars, srchVars, sessVars, detVars, page, events, modalVars>>

\* a timer callback of the visitor modal runs
OnModalTimer ==
  /\ page = "register"
  /\ UNCHANGED <<regVars, wlVars, srchVars, sessVars, detVars, page, events, guestVars>>

\* the scanner detection runs on an input event of the operator
OnScannerField ==
  /\ page = "guest"
  /\ events < MaxEvents
  /\ events' = events + 1
  /\ UNCHANGED <<regVars, wlVars, srchVars, sessVars, page, guestVars, modalVars>>

\* the timer of the scanner detection runs, or the clock of the page advances
OnScannerClock ==
  /\ page = "guest"
  /\ UNCHANGED <<regVars, wlVars, srchVars, sessVars, page, events, guestVars, modalVars>>

\* a handler of the guest page runs on an event of the operator
OnGuestPage ==
  /\ page = "guest"
  /\ events < MaxEvents
  /\ events' = events + 1
  /\ UNCHANGED <<regVars, wlVars, srchVars, sessVars, detVars, page, modalVars>>

\* a handler of the visitor modal runs on an event of the operator
OnVisitorModal ==
  /\ page = "register"
  /\ events < MaxEvents
  /\ events' = events + 1
  /\ UNCHANGED <<regVars, wlVars, srchVars, sessVars, detVars, page, guestVars>>

\* generateRandomTransaction: the simulated feed
generateRandomTransaction(holder, cardNum, tagNum, type, isAuthorized, now, rnd) ==
  [id |-> <<"txn", now, rnd>>, timestamp |-> now, cardHolder |-> holder,
   cardId   |-> <<"I","N","V","-","C","O","N","-","L","A","P","-">> \o cardNum,
   assetTag |-> <<"I","N","V","-","C","O","N","-","M","A","K","-">> \o tagNum,
   type |-> type,
   status |-> IF isAuthorized THEN "authorized" ELSE "unauthorized",
   isAuthorized |-> isAuthorized]

RegInit ==
  /\ currentFilter = "all"
  /\ transactions = renderTable(mockTransactions, "all")
  /\ statistics = updateStateStatistics(mockTransactions)
  /\ searchQuery = <<>>
  /\ currentMode = "check-in"
  /\ traceAsset = <<>>
  /\ searchTimer = 0
  /\ refreshTimers = 0
  /\ exportTimers = 0
  /\ tableBody = displayTransactions(mockTransactions, "all")
  /\ clock \in Times

\* the guest page loads neither data.js nor app.js: no appState, no timers
RegNotLoaded ==
  /\ currentFilter = "all"
  /\ transactions = <<>>
  /\ statistics = [authorizedToday |-> 0, unauthorized |-> 0, totalScans |-> 0]
  /\ searchQuery = <<>>
  /\ currentMode = "check-in"
  /\ traceAsset = <<>>
  /\ searchTimer = 0
  /\ refreshTimers = 0
  /\ exportTimers = 0
  /\ tableBody = <<>>
  /\ clock = 0

Added == Len(transactions) - Len(mockTransactions)

\* handleProcessTransaction
handleProcessTransaction ==
  /\ OnRegisterPage
  /\ \E cardField \in FieldInputs, deviceField \in FieldInputs, now \in Times :
       LET validation == validateInputs(cardField, deviceField)
           newTransaction == createTransaction(validation.cardId, validation.deviceTag,
                                               currentMode, now, 0)
           unshifted == <<newTransaction>> \o transactions
       IN /\ now >= clock
          /\ validation.isValid
          /\ Added < MaxNew
          /\ statistics' = updateStateStatistics(unshifted)
          /\ searchQuery' = <<>>
          /\ traceAsset' = IF searchQuery # <<>> THEN <<>> ELSE traceAsset
          /\ transactions' = renderTable(unshifted, currentFilter)
          /\ tableBody' = displayTransactions(unshifted, currentFilter)
          /\ clock' = now
          /\ UNCHANGED <<currentFilter, currentMode, searchTimer, refreshTimers,
                         exportTimers>>

\* processAutoRefresh, when checkForNewTransactions returns one or two records
processAutoRefresh ==
  /\ OnRegisterPage
  /\ \E n \in 1..2, holder \in { <<"J","a","n","e"," ","A","k","e","l","l","o">> },
        num \in { <<"1","0","0","0">> },
        type \in {"IN", "OUT"}, auth1 \in BOOLEAN, auth2 \in BOOLEAN,
        now1 \in Times, now2 \in Times :
       LET first  == generateRandomTransaction(holder, num, num, type, auth1, now1, 0)
           second == generateRandomTransaction(holder, num, num, type, auth2, now2, 1)
           unshifted == IF n = 1 THEN <<first>> \o transactions
                        ELSE <<second, first>> \o transactions
       IN /\ clock <= now1 /\ now1 <= now2
          /\ Added + n <= MaxNew
          /\ statistics' = updateStateStatistics(unshifted)
          /\ transactions' = IF searchQuery # <<>> THEN unshifted
                             ELSE renderTable(unshifted, currentFilter)
          /\ tableBody' = IF searchQuery # <<>>
                          THEN displayTransactions(searchTransactions(unshifted, searchQuery),
                                                   currentFilter)
                          ELSE displayTransactions(unshifted, currentFilter)
          /\ clock' = IF n = 1 THEN now1 ELSE now2
          /\ UNCHANGED <<currentFilter, searchQuery, currentMode, traceAsset,
                         searchTimer, refreshTimers, exportTimers>>

\* handleRefresh: the click (or Alt+R) schedules the reload
handleRefresh ==
  /\ OnRegisterPage
  /\ refreshTimers < MaxPending
  /\ refreshTimers' = refreshTimers + 1
  /\ UNCHANGED <<transactions, statistics, currentFilter, searchQuery, currentMode,
                 traceAsset, searchTimer, exportTimers, tableBody, clock>>

\* handleRefresh: the callback that runs 800 ms later
RefreshCompletes ==
  /\ OnRegisterPage
  /\ refreshTimers > 0
  /\ refreshTimers' = refreshTimers - 1
  /\ statistics' = updateStateStatistics(reloadTransactionData)
  /\ searchQuery' = <<>>
  /\ traceAsset' = IF searchQuery # <<>> THEN <<>> ELSE traceAsset
  /\ transactions' = renderTable(reloadTransactionData, currentFilter)
  /\ tableBody' = displayTransactions(reloadTransactionData, currentFilter)
  /\ UNCHANGED <<currentFilter, currentMode, searchTimer, exportTimers,
                 clock>>

\* handleExport: the click (or Alt+E) schedules the export
handleExport ==
  /\ OnRegisterPage
  /\ exportTimers < MaxPending
  /\ exportTimers' = exportTimers + 1
  /\ UNCHANGED <<transactions, statistics, currentFilter, searchQuery, currentMode,
                 traceAsset, searchTimer, refreshTimers, tableBody, clock>>

\* handleExport: the callback that runs 200 ms later and calls exportTableData
ExportCompletes ==
  /\ OnRegisterPage
  /\ exportTimers > 0
  /\ exportTimers' = exportTimers - 1
  /\ transactions' = exportTableData(transactions, currentFilter)
  /\ UNCHANGED <<statistics, currentFilter, searchQuery, currentMode, traceAsset,
                 searchTimer, refreshTimers, tableBody, clock>>

\* handleFilterChange
handleFilterChange ==
  /\ OnRegisterPage
  /\ \E filterValue \in Filters :
       /\ currentFilter' = filterValue
       /\ transactions' = IF searchQuery # <<>> THEN transactions
                          ELSE renderTable(transactions, filterValue)
       /\ tableBody' = IF searchQuery # <<>>
                       THEN displayTransactions(searchTransactions(transactions, searchQuery),
                                                filterValue)
                       ELSE displayTransactions(transactions, filterValue)
       /\ UNCHANGED <<statistics, searchQuery, currentMode, traceAsset, searchTimer,
                      refreshTimers, exportTimers, clock>>

\* clearTimeout(timeoutId): the pending call, if any, is cancelled
clearTimeout(pending) == 0

\* a call of the debounced function without the cancellation
debounce_noCancel(pending) == pending + 1

\* a call of the function debounce returns: the pending calls afterwards
debounce(pending) == clearTimeout(pending) + 1

\* an input event on #traceAsset: debounce(handleSearchInput, 300) restarts
TraceAssetInput ==
  /\ OnRegisterPage
  /\ \E value \in SearchInputs :
       /\ traceAsset' = value
       /\ searchTimer' = debounce(searchTimer)
       /\ UNCHANGED <<transactions, statistics, currentFilter, searchQuery, currentMode,
                      refreshTimers, exportTimers, tableBody, clock>>

\* handleSearchInput, run by the debounce timer
handleSearchInput ==
  /\ OnRegisterPage
  /\ LET query == toLowerCase(trim(traceAsset)) IN
     /\ searchTimer > 0
     /\ searchTimer' = searchTimer - 1
     /\ searchQuery' = query
     /\ transactions' = IF query = <<>> THEN renderTable(transactions, currentFilter)
                        ELSE transactions
     /\ tableBody' = IF query = <<>>
                     THEN displayTransactions(transactions, currentFilter)
                     ELSE displayTransactions(searchTransactions(transactions, query),
                                              currentFilter)
     /\ UNCHANGED <<statistics, currentFilter, currentMode, traceAsset, refreshTimers,
                    exportTimers, clock>>

\* the Escape handler of setupKeyboardNavigation
EscapeKey ==
  /\ OnRegisterPage
  /\ traceAsset # <<>>
  /\ traceAsset' = <<>>
  /\ searchQuery' = <<>>
  /\ transactions' = renderTable(transactions, currentFilter)
  /\ tableBody' = displayTransactions(transactions, currentFilter)
  /\ UNCHANGED <<statistics, currentFilter, currentMode, searchTimer, refreshTimers,
                 exportTimers, clock>>

\* handleEntryExitToggle
handleEntryExitToggle ==
  /\ OnRegisterPage
  /\ \E mode \in {"check-in", "check-out"} :
       /\ currentMode' = mode
       /\ UNCHANGED <<transactions, statistics, currentFilter, searchQuery, traceAsset,
                      searchTimer, refreshTimers, exportTimers, tableBody, clock>>

RegisterNext ==
  \/ handleProcessTransaction
  \/ processAutoRefresh
  \/ handleRefresh
  \/ RefreshCompletes
  \/ handleExport
  \/ ExportCompletes
  \/ handleFilterChange
  \/ TraceAssetInput
  \/ handleSearchInput
  \/ EscapeKey
  \/ handleEntryExitToggle

\* ------------------------------------------- js/data.js: watchlist functions
WatchTimes == {1, 2, 3}

getUnauthorizedTransactions(txs) == SelectSeq(txs, LAMBDA t : t.isAuthorized = FALSE)

\* null is the empty sequence, a transaction t is <<t>>
getLatestUnauthorizedTransaction_unsorted(txs) ==
  LET unauthorized == getUnauthorizedTransactions(txs) IN
  IF Len(unauthorized) = 0 THEN <<>> ELSE <<unauthorized[1]>>

getLatestUnauthorizedTransaction(txs) ==
  LET unauthorized == getUnauthorizedTransactions(txs) IN
  IF Len(unauthorized) = 0 THEN <<>> ELSE <<SortDesc(unauthorized)[1]>>

calculateWatchlistState(txs) ==
  [unauthorizedTransactions |-> getUnauthorizedTransactions(txs),
   latestUnauthorized       |-> getLatestUnauthorizedTransaction(txs),
   hasIncidents             |-> Len(getUnauthorizedTransactions(txs)) > 0,
   incidentCount            |-> Len(getUnauthorizedTransactions(txs))]

WatchInit ==
  /\ wlInput = <<>>
  /\ wlState = calculateWatchlistState(<<>>)

\* one more transaction at the head of T, then calculateWatchlistState(T)
WatchlistOfLongerList ==
  /\ OnWatchlist
  /\ \E ts \in WatchTimes, auth \in BOOLEAN :
       LET t == [id |-> <<"txn", Len(wlInput) + 1>>, timestamp |-> ts,
                 isAuthorized |-> auth]
       IN /\ Len(wlInput) < MaxLen
          /\ wlInput' = <<t>> \o wlInput
          /\ wlState' = calculateWatchlistState(wlInput')

WatchlistNext == WatchlistOfLongerList

\* ----------------------------------------- search and filter, as functions
MaxSearchLen == 2    \* length of the lists search and filter are applied to

\* the transactions the lists are built from: seed records of both types,
\* authorized and not
SearchPool == { mockTransactions[i] : i \in {1, 2, 5, 12} }

\* queries: a full asset tag, parts of names in either case, a miss
SearchQueries == { <<>>,
                   mockTransactions[1].assetTag,
                   <<"n","a","k">>,
                   <<"M","u","s","o","k","e">>,
                   <<"x","y","z">> }

\* the three compositions for a list, a query and a filter kind
SearchResults(txs, query, filter) ==
  /\ searchThenFilter' = filterTransactions(searchTransactions(txs, query), filter)
  /\ filterThenSearch' = searchTransactions(filterTransactions(txs, filter), query)
  /\ searchTwice' = searchTransactions(searchTransactions(txs, query), query)

SearchInit ==
  /\ srchInput = <<>>
  /\ srchQuery = <<>>
  /\ srchFilter = "all"
  /\ searchThenFilter = <<>>
  /\ filterThenSearch = <<>>
  /\ searchTwice = <<>>

\* one more transaction at the head of T, then search and filter
SearchOfLongerList ==
  /\ OnSearch
  /\ \E t \in SearchPool :
       /\ Len(srchInput) < MaxSearchLen
       /\ srchInput' = <<t>> \o srchInput
       /\ SearchResults(srchInput', srchQuery, srchFilter)
       /\ UNCHANGED <<srchQuery, srchFilter>>

\* another query for the same list and filter kind
SearchWithOtherQuery ==
  /\ OnSearch
  /\ \E query \in SearchQueries :
       /\ srchQuery' = query
       /\ SearchResults(srchInput, query, srchFilter)
       /\ UNCHANGED <<srchInput, srchFilter>>

\* another filter kind for the same list and query
FilterOfOtherKind ==
  /\ OnSearch
  /\ \E filter \in Filters :
       /\ srchFilter' = filter
       /\ SearchResults(srchInput, srchQuery, filter)
       /\ UNCHANGED <<srchInput, srchQuery>>

SearchNext == SearchOfLongerList \/ SearchWithOtherQuery \/ FilterOfOtherKind

\* ------------------------------------------------------ js/ui.js: CSV export
\* String(n).padStart(2, '0') for 0 <= n < 100
padStart2(n) ==
  LET digit(k) == <<"0","1","2","3","4","5","6","7","8","9">>[k + 1]
  IN <<digit(n \div 10), digit(n % 10)>>

\* formatTime: HH:MM:SS of the timestamp
formatTime(timestamp) ==
  padStart2(timestamp \div 10000) \o <<":">> \o padStart2((timestamp \div 100) % 100)
    \o <<":">> \o padStart2(timestamp % 100)

\* Array.prototype.join(',')
RECURSIVE join(_)
join(fields) ==
  IF fields = <<>> THEN <<>>
  ELSE IF Len(fields) = 1 THEN fields[1]
  ELSE fields[1] \o <<",">> \o join(Tail(fields))

\* a CSV writer that puts the asset tag before the card ID
RECURSIVE convertToCSV_tagFirst(_)
convertToCSV_tagFirst(txs) ==
  IF txs = <<>>
  THEN <<"T","I","M","E",",","C","A","R","D"," ","H","O","L","D","E","R",",",
         "C","A","R","D"," ","I","D",",","A","S","S","E","T"," ","T","A","G",",",
         "T","Y","P","E",",","S","T","A","T","U","S","\n">>
  ELSE LET transaction == txs[Len(txs)]
           row == << formatTime(transaction.timestamp),
                     <<"\"">> \o transaction.cardHolder \o <<"\"">>,
                     transaction.assetTag,
                     transaction.cardId,
                     IF transaction.type = "IN" THEN <<"I","N">> ELSE <<"O","U","T">>,
                     IF transaction.isAuthorized
                     THEN <<"A","U","T","H","O","R","I","Z","E","D">>
                     ELSE <<"U","N","A","U","T","H","O","R","I","Z","E","D">> >>
       IN convertToCSV_tagFirst(SubSeq(txs, 1, Len(txs) - 1)) \o join(row) \o <<"\n">>

\* convertToCSV: the header row, then one row per transaction
RECURSIVE convertToCSV(_)
convertToCSV(txs) ==
  IF txs = <<>>
  THEN <<"T","I","M","E",",","C","A","R","D"," ","H","O","L","D","E","R",",",
         "C","A","R","D"," ","I","D",",","A","S","S","E","T"," ","T","A","G",",",
         "T","Y","P","E",",","S","T","A","T","U","S","\n">>
  ELSE LET transaction == txs[Len(txs)]
           row == << formatTime(transaction.timestamp),
                     <<"\"">> \o transaction.cardHolder \o <<"\"">>,
                     transaction.cardId,
                     transaction.assetTag,
                     IF transaction.type = "IN" THEN <<"I","N">> ELSE <<"O","U","T">>,
                     IF transaction.isAuthorized
                     THEN <<"A","U","T","H","O","R","I","Z","E","D">>
                     ELSE <<"U","N","A","U","T","H","O","R","I","Z","E","D">> >>
       IN convertToCSV(SubSeq(txs, 1, Len(txs) - 1)) \o join(row) \o <<"\n">>

\* exportTableData: the content handed to downloadFile
exportedContent(txs, filter) ==
  convertToCSV(SortDesc(filterTransactions(txs, filter)))

\* ------------------------------------ js/guest-management.js: the guest page
TC1001 == <<"T","C","-","1","0","0","1">>

TC1003 == <<"T","C","-","1","0","0","3">>

TC9999 == <<"T","C","-","9","9","9","9">>

DT1001 == <<"D","T","-","1","0","0","1">>

GC7 == <<"G","C","-","7">>

\* a tag without a scanner prefix, shorter than 8 characters
AB12 == <<"A","B","1","2">>

\* a tag without a scanner prefix, 8 characters long
LAP98765 == <<"L","A","P","9","8","7","6","5">>

JohnDoe == <<"J","o","h","n"," ","D","o","e">>

AcmeCorporation == <<"A","c","m","e"," ","C","o","r","p","o","r","a","t","i","o","n">>

SarahNakato == <<"S","a","r","a","h"," ","N","a","k","a","t","o">>

\* generateSerialNumber: SN-<brand>-<10000..99999>; one of its values
GeneratedSerial == <<"S","N","-","L","E","N","-","1","0","0","0","0">>

\* a minimum length one short of scannerConfig.minLength
minLength_two == 1 + 1

\* scannerConfig.minLength
minLength == 3

\* scannerConfig.prefixes
prefixes == { <<"D","T","-">>, <<"G","C","-">>, <<"T","C","-">> }

\* `device_${n}`
DeviceId(n) == <<"device_", n>>

\* `modal_device_${n}`
ModalDeviceId(n) == <<"modal_device_", n>>

\* values of the card field after an input event
CardInputs ==
  { <<"T","C">>, TC1001, <<" ">> \o toLowerCase(TC1001), toLowerCase(TC1003), TC9999 }

\* values of the device tag field after an input event
DeviceInputs == { DT1001, toLowerCase(DT1001) \o <<" ">>, GC7 }

\* values of a device tag field while a scanner or the keyboard fills it: with
\* and without a scanner prefix, shorter and longer than 3 and 8 characters
ScannerInputs == { DT1001, toLowerCase(DT1001) \o <<" ">>, AB12, LAP98765, <<"D","T">> }

\* values typed into the serial number input of a device row
SerialInputs == { <<" ">> }

\* initializeSampleData; fields that are only displayed (id, checkInTime,
\* notes, scannedTime) are left out, lastVisit 0 is a visit before this session
SampleActiveGuests ==
  << [cardNumber |-> TC1001, name |-> JohnDoe, company |-> AcmeCorporation,
      purpose |-> "meeting", hostEmployee |-> SarahNakato, status |-> "checked-in",
      devices |-> << [id |-> DeviceId(1), deviceTag |-> DT1001,
                      serialNumber |-> <<"S","N","-","H","P","-","1","2","3","4","5">>] >>],
     [cardNumber |-> <<"T","C","-","1","0","0","2">>, name |-> <<"J","a","n","e"," ","S","m","i","t","h">>, company |-> <<"T","e","c","h"," ","S","o","l","u","t","i","o","n","s"," ","L","t","d">>,
      purpose |-> "interview", hostEmployee |-> <<"P","e","t","e","r"," ","S","s","e","m","a","k","u","l","a">>,
      status |-> "checked-in", devices |-> <<>>] >>

SampleGuestHistory ==
  << [cardNumber |-> TC1003, name |-> <<"R","o","b","e","r","t"," ","J","o","h","n","s","o","n">>, company |-> <<"G","l","o","b","a","l"," ","E","n","t","e","r","p","r","i","s","e","s">>,
      purpose |-> "delivery", hostEmployee |-> <<"M","a","r","y"," ","N","a","m","b","i">>, status |-> "checked-out",
      lastVisit |-> 0] >>

GuestInit ==
  /\ currentAction = "check-in"
  /\ guestCard = <<>>
  /\ cardInput = <<>>
  /\ guestName = <<>>
  /\ guestCompany = <<>>
  /\ guestPurpose = ""
  /\ hostEmployee = <<>>
  /\ devices = <<>>
  /\ deviceCounter = 0
  /\ isProcessing = FALSE
  /\ commitTimers = 0
  /\ deviceInput = <<>>
  /\ settleTimers = <<>>
  /\ autoSwitchTimers = 0
  /\ resetTimers = 0
  /\ toasts = 0
  /\ validationErrors = <<>>
  /\ activeGuests = SampleActiveGuests
  /\ guestHistory = SampleGuestHistory
  /\ commits = 0

\* Array.prototype.find over the indices that pass the test: <<>> for
\* undefined, <<g>> for the first match
Find(list, matches) ==
  IF matches = {}
  THEN <<>>
  ELSE <<list[CHOOSE i \in matches : \A j \in matches : i <= j]>>

\* the lookup of checkCardStatus and validateGuestInput in activeGuests
FindActiveGuest_firstGuest(cardNumber) ==
  Find(activeGuests,
       { i \in DOMAIN activeGuests :
           activeGuests[i].status = "checked-in" })

FindActiveGuest(cardNumber) ==
  Find(activeGuests,
       { i \in DOMAIN activeGuests :
           /\ toUpperCase(activeGuests[i].cardNumber) = toUpperCase(cardNumber)
           /\ activeGuests[i].status = "checked-in" })

\* the lookup of checkCardStatus in guestHistory
FindHistoricalGuest(cardNumber) ==
  Find(guestHistory,
       { i \in DOMAIN guestHistory :
           toUpperCase(guestHistory[i].cardNumber) = toUpperCase(cardNumber) })

\* the lookup of processGuestTransaction in guestHistory
FindInHistory(cardNumber) ==
  Find(guestHistory,
       { i \in DOMAIN guestHistory :
           guestHistory[i].cardNumber = cardNumber })

\* handleCardInput
handleCardInput ==
  /\ OnGuestPage
  /\ \E value \in CardInputs :
       /\ cardInput' = value
       /\ guestCard' = trim(value)
       /\ validationErrors' = IF Len(trim(value)) > 0 THEN <<>> ELSE validationErrors
       /\ UNCHANGED <<currentAction, guestName, guestCompany, guestPurpose, hostEmployee,
                      devices, deviceCounter, isProcessing, commitTimers, deviceInput, settleTimers,
                      autoSwitchTimers, resetTimers, toasts, registryVars>>

\* handleCardBlur and checkCardStatus
handleCardBlur ==
  /\ OnGuestPage
  /\ LET cardNumber == trim(cardInput)
         activeGuest == FindActiveGuest(cardNumber)
         historicalGuest == FindHistoricalGuest(cardNumber)
         \* prefillGuestDetails(guest) / clearGuestDetails() / nothing
         prefill == IF activeGuest # <<>>
                    THEN (IF currentAction = "check-in" THEN <<>> ELSE activeGuest)
                    ELSE IF historicalGuest # <<>> /\ currentAction = "check-in"
                         THEN historicalGuest ELSE <<>>
         clear == /\ activeGuest = <<>>
                  /\ ~(historicalGuest # <<>> /\ currentAction = "check-in")
                  /\ currentAction = "check-in"
         switch == activeGuest # <<>> /\ currentAction = "check-in"
     IN /\ Len(cardNumber) >= minLength
        /\ switch => autoSwitchTimers < MaxPending
        /\ autoSwitchTimers' = IF switch THEN autoSwitchTimers + 1 ELSE autoSwitchTimers
        /\ guestName' = IF prefill # <<>> THEN prefill[1].name
                        ELSE IF clear THEN <<>> ELSE guestName
        /\ guestCompany' = IF prefill # <<>> THEN prefill[1].company
                           ELSE IF clear THEN <<>> ELSE guestCompany
        /\ guestPurpose' = IF prefill # <<>> THEN prefill[1].purpose
                           ELSE IF clear THEN "" ELSE guestPurpose
        /\ hostEmployee' = IF prefill # <<>> THEN prefill[1].hostEmployee
                           ELSE IF clear THEN <<>> ELSE hostEmployee
        /\ devices' = IF prefill # <<>> /\ currentAction = "check-out"
                      THEN prefill[1].devices ELSE devices
        /\ UNCHANGED <<currentAction, guestCard, cardInput, deviceCounter, isProcessing, commitTimers,
                       deviceInput, settleTimers, resetTimers, toasts, validationErrors,
                       registryVars>>

\* the input / change listeners of the guest detail fields
DetailInput ==
  \/ \E value \in { <<"J">>, JohnDoe } :
       /\ guestName' = trim(value)
       /\ UNCHANGED <<guestCompany, guestPurpose, hostEmployee>>
  \/ \E value \in { AcmeCorporation } :
       /\ guestCompany' = trim(value)
       /\ UNCHANGED <<guestName, guestPurpose, hostEmployee>>
  \/ \E value \in { "meeting" } :
       /\ guestPurpose' = value
       /\ UNCHANGED <<guestName, guestCompany, hostEmployee>>
  \/ \E value \in { SarahNakato } :
       /\ hostEmployee' = trim(value)
       /\ UNCHANGED <<guestName, guestCompany, guestPurpose>>

handleDetailInput ==
  /\ OnGuestPage
  /\ DetailInput
  /\ UNCHANGED <<currentAction, guestCard, cardInput, devices, deviceCounter,
                 isProcessing, commitTimers, deviceInput, settleTimers, autoSwitchTimers,
                 resetTimers, toasts, validationErrors, registryVars>>

\* the find of addDeviceToList: is a device with this tag already in the list
existingDevice_caseSensitive(deviceTag) ==
  Find(devices,
       { i \in DOMAIN devices :
           devices[i].deviceTag = deviceTag })

existingDevice(deviceTag) ==
  Find(devices,
       { i \in DOMAIN devices :
           toUpperCase(devices[i].deviceTag) = toUpperCase(deviceTag) })

\* addDeviceToList
addDeviceToList(deviceTag) ==
  IF existingDevice(deviceTag) # <<>>
  THEN /\ toasts < MaxPending
       /\ toasts' = toasts + 1          \* showTemporaryMessage
       /\ UNCHANGED <<devices, deviceCounter, validationErrors>>
  ELSE /\ deviceCounter < MaxScans
       /\ deviceCounter' = deviceCounter + 1
       /\ devices' = Append(devices, [id |-> DeviceId(deviceCounter + 1),
                                      deviceTag |-> toUpperCase(deviceTag),
                                      serialNumber |-> GeneratedSerial])
       /\ validationErrors' = <<>>
       /\ UNCHANGED toasts

\* a test for a complete scan that looks at the length only
LooksComplete_lengthOnly(deviceTag) ==
  Len(deviceTag) >= minLength

\* does handleDeviceInput take the value for a complete scan
LooksComplete(deviceTag) ==
  /\ Len(deviceTag) >= minLength
  /\ \/ \E prefix \in prefixes : startsWith(toUpperCase(deviceTag), prefix)
     \/ Len(deviceTag) >= 8

\* handleDeviceInput for an input event that leaves this value in the field
DeviceInputEvent(value) ==
  LET deviceTag == trim(value) IN
  /\ OnGuestPage
  /\ deviceInput' = value
  /\ IF LooksComplete(deviceTag)
     THEN /\ Len(settleTimers) < MaxSettle
          /\ settleTimers' = Append(settleTimers, deviceTag)
     ELSE UNCHANGED settleTimers
  /\ UNCHANGED <<currentAction, guestCard, cardInput, guestName, guestCompany,
                 guestPurpose, hostEmployee, devices, deviceCounter, isProcessing, commitTimers,
                 autoSwitchTimers, resetTimers, toasts, validationErrors,
                 registryVars>>

\* handleDeviceInput
handleDeviceInput ==
  \E value \in DeviceInputs : DeviceInputEvent(value)

\* the 200 ms callback of handleDeviceInput
SettleFires ==
  /\ OnGuestTimer
  /\ settleTimers # <<>>
  /\ settleTimers' = Tail(settleTimers)
  /\ IF trim(deviceInput) = Head(settleTimers)
     THEN /\ addDeviceToList(Head(settleTimers))
          /\ deviceInput' = <<>>
     ELSE UNCHANGED <<devices, deviceCounter, validationErrors, toasts, deviceInput>>
  /\ UNCHANGED <<currentAction, guestCard, cardInput, guestName, guestCompany,
                 guestPurpose, hostEmployee, isProcessing, commitTimers, autoSwitchTimers,
                 resetTimers, registryVars>>

\* handleDeviceKeydown with Enter or Tab
handleDeviceKeydown ==
  /\ OnGuestPage
  /\ IF Len(trim(deviceInput)) >= minLength
     THEN /\ addDeviceToList(trim(deviceInput))
          /\ deviceInput' = <<>>
     ELSE UNCHANGED <<devices, deviceCounter, validationErrors, toasts, deviceInput>>
  /\ UNCHANGED <<currentAction, guestCard, cardInput, guestName, guestCompany,
                 guestPurpose, hostEmployee, isProcessing, commitTimers, settleTimers,
                 autoSwitchTimers, resetTimers, registryVars>>

\* the 3 s callback of showTemporaryMessage
ToastExpires ==
  /\ OnGuestTimer
  /\ toasts > 0
  /\ toasts' = toasts - 1
  /\ UNCHANGED <<currentAction, guestCard, cardInput, guestName, guestCompany,
                 guestPurpose, hostEmployee, devices, deviceCounter, isProcessing, commitTimers,
                 deviceInput, settleTimers, autoSwitchTimers, resetTimers,
                 validationErrors, registryVars>>

\* index of the first device with this id, 0 if none
FirstWithId(devs, deviceId) ==
  IF \E i \in DOMAIN devs : devs[i].id = deviceId
  THEN CHOOSE i \in DOMAIN devs :
         devs[i].id = deviceId /\ \A j \in 1..(i - 1) : devs[j].id # deviceId
  ELSE 0

\* updateDeviceSerial, called by the serial input of a device row
updateDeviceSerial ==
  /\ OnGuestPage
  /\ \E i \in DOMAIN devices, newSerial \in SerialInputs :
       LET k == FirstWithId(devices, devices[i].id) IN
       /\ devices' = [devices EXCEPT ![k].serialNumber = trim(newSerial)]
       /\ UNCHANGED <<currentAction, guestCard, cardInput, guestName, guestCompany,
                      guestPurpose, hostEmployee, deviceCounter, isProcessing, commitTimers,
                      deviceInput, settleTimers, autoSwitchTimers, resetTimers, toasts,
                      validationErrors, registryVars>>

\* removeDevice, called by the remove button of a device row
removeDevice ==
  /\ OnGuestPage
  /\ \E i \in DOMAIN devices :
       /\ devices' = SelectSeq(devices, LAMBDA d : d.id # devices[i].id)
       /\ UNCHANGED <<currentAction, guestCard, cardInput, guestName, guestCompany,
                      guestPurpose, hostEmployee, deviceCounter, isProcessing, commitTimers,
                      deviceInput, settleTimers, autoSwitchTimers, resetTimers, toasts,
                      validationErrors, registryVars>>

\* handleActionToggle / updateActionState: the two buttons, Alt+I and Alt+O
handleActionToggle ==
  /\ OnGuestPage
  /\ \E action \in {"check-in", "check-out"} :
       /\ currentAction' = action
       /\ UNCHANGED <<guestCard, cardInput, guestName, guestCompany, guestPurpose,
                      hostEmployee, devices, deviceCounter, isProcessing, commitTimers, deviceInput,
                      settleTimers, autoSwitchTimers, resetTimers, toasts,
                      validationErrors, registryVars>>

\* the 2 s callback of checkCardStatus
AutoSwitchFires ==
  /\ OnGuestTimer
  /\ autoSwitchTimers > 0
  /\ autoSwitchTimers' = autoSwitchTimers - 1
  /\ currentAction' = "check-out"
  /\ UNCHANGED <<guestCard, cardInput, guestName, guestCompany, guestPurpose,
                 hostEmployee, devices, deviceCounter, isProcessing, commitTimers, deviceInput,
                 settleTimers, resetTimers, toasts, validationErrors, registryVars>>

\* validateGuestInput; isValid is errors = <<>>
validateGuestInput_noDeviceCheck ==
  LET card == IF Len(guestCard) < 3
              THEN <<"Guest card number is required">> ELSE <<>>
      details ==
        IF currentAction = "check-in"
        THEN (IF Len(guestName) < 2 THEN <<"Guest name is required">> ELSE <<>>)
             \o (IF Len(guestCompany) < 2
                 THEN <<"Company/Organization is required">> ELSE <<>>)
             \o (IF guestPurpose = ""
                 THEN <<"Purpose of visit is required">> ELSE <<>>)
             \o (IF Len(hostEmployee) < 2
                 THEN <<"Host employee name is required">> ELSE <<>>)
        ELSE <<>>
      exists == IF currentAction = "check-out" /\ FindActiveGuest(guestCard) = <<>>
                THEN <<"Cannot check out: Guest is not currently checked in">>
                ELSE <<>>
      serials == IF \E i \in DOMAIN devices : trim(devices[i].serialNumber) = <<>>
                 THEN <<"All devices must have serial numbers">> ELSE <<>>
      errors == card \o details \o exists \o serials
  IN [isValid |-> errors = <<>>, errors |-> errors]

validateGuestInput ==
  LET card == IF Len(guestCard) < 3
              THEN <<"Guest card number is required">> ELSE <<>>
      details ==
        IF currentAction = "check-in"
        THEN (IF Len(guestName) < 2 THEN <<"Guest name is required">> ELSE <<>>)
             \o (IF Len(guestCompany) < 2
                 THEN <<"Company/Organization is required">> ELSE <<>>)
             \o (IF guestPurpose = ""
                 THEN <<"Purpose of visit is required">> ELSE <<>>)
             \o (IF Len(hostEmployee) < 2
                 THEN <<"Host employee name is required">> ELSE <<>>)
             \o (IF Len(devices) = 0
                 THEN <<"At least one device must be scanned for check-in">>
                 ELSE <<>>)
        ELSE <<>>
      exists == IF currentAction = "check-out" /\ FindActiveGuest(guestCard) = <<>>
                THEN <<"Cannot check out: Guest is not currently checked in">>
                ELSE <<>>
      serials == IF \E i \in DOMAIN devices : trim(devices[i].serialNumber) = <<>>
                 THEN <<"All devices must have serial numbers">> ELSE <<>>
      errors == card \o details \o exists \o serials
  IN [isValid |-> errors = <<>>, errors |-> errors]

\* a process request that does not look at isProcessing
handleProcessGuest_noFlagCheck ==
  /\ OnGuestPage
  /\ LET validation == validateGuestInput IN
     /\ IF ~validation.isValid
        THEN /\ validationErrors' = validation.errors
             /\ UNCHANGED <<isProcessing, commitTimers>>
        ELSE /\ commits < MaxCommits
             /\ commitTimers < MaxPending + 1
             /\ validationErrors' = <<>>
             /\ isProcessing' = TRUE
             /\ commitTimers' = commitTimers + 1
     /\ UNCHANGED <<currentAction, guestCard, cardInput, guestName, guestCompany,
                    guestPurpose, hostEmployee, devices, deviceCounter, deviceInput,
                    settleTimers, autoSwitchTimers, resetTimers, toasts, registryVars>>

\* handleProcessGuest: the process button and Alt+P; a request made while
\* isProcessing returns at once and changes nothing
handleProcessGuest ==
  /\ OnGuestPage
  /\ LET validation == validateGuestInput IN
     /\ ~isProcessing
     /\ IF ~validation.isValid
        THEN /\ validationErrors' = validation.errors     \* showValidationErrors
             /\ UNCHANGED <<isProcessing, commitTimers>>
        ELSE /\ commits < MaxCommits
             /\ validationErrors' = <<>>
             /\ isProcessing' = TRUE
             /\ commitTimers' = commitTimers + 1
     /\ UNCHANGED <<currentAction, guestCard, cardInput, guestName, guestCompany,
                    guestPurpose, hostEmployee, devices, deviceCounter, deviceInput,
                    settleTimers, autoSwitchTimers, resetTimers, toasts, registryVars>>

\* processGuestTransaction (the 1.5 s callback) and showSuccessMessage
processGuestTransaction ==
  /\ OnGuestTimer
  /\ LET now == commits + 1
         newGuest == [cardNumber |-> guestCard, name |-> guestName,
                      company |-> guestCompany, purpose |-> guestPurpose,
                      hostEmployee |-> hostEmployee, status |-> "checked-in",
                      devices |-> devices]
         visit == [cardNumber |-> guestCard, name |-> guestName,
                   company |-> guestCompany, purpose |-> guestPurpose,
                   hostEmployee |-> hostEmployee, status |-> "checked-out",
                   lastVisit |-> now]
     IN /\ commitTimers > 0
        /\ commitTimers' = commitTimers - 1
        /\ resetTimers < MaxPending
        /\ IF currentAction = "check-in"
           THEN /\ activeGuests' = Append(activeGuests, newGuest)
                /\ guestHistory' = IF FindInHistory(guestCard) = <<>>
                                   THEN Append(guestHistory, visit) ELSE guestHistory
           ELSE /\ activeGuests' = SelectSeq(activeGuests, LAMBDA g :
                                     toUpperCase(g.cardNumber) # toUpperCase(guestCard))
                /\ guestHistory' =
                     IF FindInHistory(guestCard) = <<>> THEN guestHistory
                     ELSE LET k == CHOOSE i \in DOMAIN guestHistory :
                                     /\ guestHistory[i].cardNumber = guestCard
                                     /\ \A j \in 1..(i - 1) :
                                          guestHistory[j].cardNumber # guestCard
                          IN [guestHistory EXCEPT ![k].lastVisit = now,
                                                  ![k].status = "checked-out"]
        /\ commits' = now
        /\ isProcessing' = FALSE                        \* showSuccessMessage
        /\ resetTimers' = resetTimers + 1
        /\ UNCHANGED <<currentAction, guestCard, cardInput, guestName, guestCompany,
                       guestPurpose, hostEmployee, devices, deviceCounter, deviceInput,
                       settleTimers, autoSwitchTimers, toasts, validationErrors>>

\* resetGuestForm, the 3 s callback of processGuestTransaction
resetGuestForm ==
  /\ OnGuestTimer
  /\ resetTimers > 0
  /\ resetTimers' = resetTimers - 1
  /\ guestCard' = <<>>
  /\ cardInput' = <<>>
  /\ guestName' = <<>>
  /\ guestCompany' = <<>>
  /\ guestPurpose' = ""
  /\ hostEmployee' = <<>>
  /\ devices' = <<>>
  /\ deviceInput' = <<>>
  /\ currentAction' = "check-in"
  /\ validationErrors' = <<>>
  /\ UNCHANGED <<deviceCounter, isProcessing, commitTimers, settleTimers, autoSwitchTimers,
                 toasts, registryVars>>

GuestNext ==
  \/ handleCardInput
  \/ handleCardBlur
  \/ handleDetailInput
  \/ handleDeviceInput
  \/ SettleFires
  \/ handleDeviceKeydown
  \/ ToastExpires
  \/ updateDeviceSerial
  \/ removeDevice
  \/ handleActionToggle
  \/ AutoSwitchFires
  \/ handleProcessGuest
  \/ processGuestTransaction
  \/ resetGuestForm

\* ------------------------------------------ js/app.js: the visitor modal
\* window.modalGuestState before the first use, the modal closed
ModalInit ==
  /\ modalOpen = FALSE
  /\ modalDevices = <<>>
  /\ modalDeviceCounter = 0
  /\ modalDeviceInput = <<>>
  /\ modalSettleTimers = <<>>
  /\ modalToasts = 0

\* openGuestModal and initializeGuestModal
openGuestModal ==
  /\ OnVisitorModal
  /\ ~modalOpen
  /\ modalOpen' = TRUE
  /\ UNCHANGED <<modalDevices, modalDeviceCounter, modalDeviceInput,
                 modalSettleTimers, modalToasts>>

\* closeGuestModal and resetGuestModal: the close button, the overlay, Escape
\* and the 2 s callback of processModalGuestTransaction
closeGuestModal ==
  /\ OnVisitorModal
  /\ modalOpen
  /\ modalOpen' = FALSE
  /\ modalDevices' = <<>>
  /\ modalDeviceInput' = <<>>
  /\ UNCHANGED <<modalDeviceCounter, modalSettleTimers, modalToasts>>

\* the find of addModalDeviceToList
existingModalDevice(deviceTag) ==
  Find(modalDevices,
       { i \in DOMAIN modalDevices :
           toUpperCase(modalDevices[i].deviceTag) = toUpperCase(deviceTag) })

\* addModalDeviceToList
addModalDeviceToList(deviceTag) ==
  IF existingModalDevice(deviceTag) # <<>>
  THEN /\ modalToasts < MaxPending
       /\ modalToasts' = modalToasts + 1     \* showModalTemporaryMessage
       /\ UNCHANGED <<modalDevices, modalDeviceCounter>>
  ELSE /\ modalDeviceCounter < MaxScans
       /\ modalDeviceCounter' = modalDeviceCounter + 1
       /\ modalDevices' =
            Append(modalDevices, [id |-> ModalDeviceId(modalDeviceCounter + 1),
                                  deviceTag |-> toUpperCase(deviceTag),
                                  serialNumber |-> GeneratedSerial])
       /\ UNCHANGED modalToasts

\* handleModalDeviceInput for an input event that leaves this value in the field
ModalDeviceInputEvent(value) ==
  LET deviceTag == trim(value) IN
  /\ OnVisitorModal
  /\ modalOpen
  /\ modalDeviceInput' = value
  /\ IF LooksComplete(deviceTag)
     THEN /\ Len(modalSettleTimers) < MaxSettle
          /\ modalSettleTimers' = Append(modalSettleTimers, deviceTag)
     ELSE UNCHANGED modalSettleTimers
  /\ UNCHANGED <<modalOpen, modalDevices, modalDeviceCounter, modalToasts>>

\* handleModalDeviceInput
handleModalDeviceInput ==
  \E value \in DeviceInputs : ModalDeviceInputEvent(value)

\* the 200 ms callback of handleModalDeviceInput
ModalSettleFires ==
  /\ OnModalTimer
  /\ modalSettleTimers # <<>>
  /\ modalSettleTimers' = Tail(modalSettleTimers)
  /\ IF trim(modalDeviceInput) = Head(modalSettleTimers)
     THEN /\ addModalDeviceToList(Head(modalSettleTimers))
          /\ modalDeviceInput' = <<>>
     ELSE UNCHANGED <<modalDevices, modalDeviceCounter, modalToasts, modalDeviceInput>>
  /\ UNCHANGED modalOpen

\* handleModalDeviceKeydown with Enter or Tab
handleModalDeviceKeydown ==
  /\ OnVisitorModal
  /\ modalOpen
  /\ IF Len(trim(modalDeviceInput)) >= 3
     THEN /\ addModalDeviceToList(trim(modalDeviceInput))
          /\ modalDeviceInput' = <<>>
     ELSE UNCHANGED <<modalDevices, modalDeviceCounter, modalToasts, modalDeviceInput>>
  /\ UNCHANGED <<modalOpen, modalSettleTimers>>

\* the 3 s callback of showModalTemporaryMessage
ModalToastExpires ==
  /\ OnModalTimer
  /\ modalToasts > 0
  /\ modalToasts' = modalToasts - 1
  /\ UNCHANGED <<modalOpen, modalDevices, modalDeviceCounter, modalDeviceInput,
                 modalSettleTimers>>

\* window.updateModalDeviceSerial
updateModalDeviceSerial ==
  /\ OnVisitorModal
  /\ \E i \in DOMAIN modalDevices, newSerial \in SerialInputs :
       LET k == FirstWithId(modalDevices, modalDevices[i].id) IN
       /\ modalOpen
       /\ modalDevices' = [modalDevices EXCEPT ![k].serialNumber = trim(newSerial)]
       /\ UNCHANGED <<modalOpen, modalDeviceCounter, modalDeviceInput,
                      modalSettleTimers, modalToasts>>

\* window.removeModalDevice
removeModalDevice ==
  /\ OnVisitorModal
  /\ \E i \in DOMAIN modalDevices :
       /\ modalOpen
       /\ modalDevices' = SelectSeq(modalDevices, LAMBDA d : d.id # modalDevices[i].id)
       /\ UNCHANGED <<modalOpen, modalDeviceCounter, modalDeviceInput,
                      modalSettleTimers, modalToasts>>

ModalNext ==
  \/ openGuestModal
  \/ closeGuestModal
  \/ handleModalDeviceInput
  \/ ModalSettleFires
  \/ handleModalDeviceKeydown
  \/ ModalToastExpires
  \/ updateModalDeviceSerial
  \/ removeModalDevice

\* ------------------------------------------------ the device tag fields
\* an input event of a device tag field of the guest form, any scanner value
ScannerDeviceInput ==
  \E value \in ScannerInputs : DeviceInputEvent(value)

\* an input event of the device tag field of the visitor modal
ScannerModalDeviceInput ==
  \E value \in ScannerInputs : ModalDeviceInputEvent(value)

\* the handlers and callbacks that read or write a device tag field
ScannerNext ==
  \/ ScannerDeviceInput
  \/ SettleFires
  \/ handleDeviceKeydown
  \/ ToastExpires
  \/ removeDevice
  \/ openGuestModal
  \/ closeGuestModal
  \/ ScannerModalDeviceInput
  \/ ModalSettleFires
  \/ handleModalDeviceKeydown
  \/ ModalToastExpires
  \/ removeModalDevice

\* --------------------------------- js/login.js and the check of js/app.js
admin == <<"a","d","m","i","n">>

\* contents of the username and password fields when the form is submitted
UsernameInputs == { <<>>, admin, <<" ">> \o admin, <<"g","u","a","r","d">> }

PasswordInputs == { <<>>, admin, <<"A","d","m","i","n">> }

\* values of the entrance dropdown, "" while nothing is selected
EntranceInputs == { "", "main-reception", "pike-house" }

\* sessionStorage without items (a new tab, or after sessionStorage.clear())
NoSession ==
  [isAuthenticated |-> <<>>, username |-> <<>>, entrance |-> <<>>, loginTime |-> <<>>]

\* the four setItem calls of a successful login
StoredSession(username, entrance) ==
  [isAuthenticated |-> <<"true">>, username |-> <<username>>,
   entrance |-> <<entrance>>, loginTime |-> <<"toISOString">>]

\* the state the register page of the other components runs in: logged in
SessionInit ==
  /\ location = "register"
  /\ ready = TRUE
  /\ sessionStorage = StoredSession(admin, "main-reception")
  /\ authTimers = <<>>
  /\ redirectTimers = 0
  /\ loginBtn = "enabled"
  /\ errorMessage = ""

\* a check of the credentials that looks at the username only
credentialsMatch_usernameOnly(username, password) ==
  username = admin

\* the demo credentials of handleLogin
credentialsMatch(username, password) ==
  username = admin /\ password = admin

\* checkAuthentication
checkAuthentication ==
  sessionStorage.isAuthenticated = <<"true">>

\* window.location.href = target: the document is replaced, its timers are gone
NavigateTo(target) ==
  /\ location' = target
  /\ ready' = FALSE
  /\ authTimers' = <<>>
  /\ redirectTimers' = 0
  /\ loginBtn' = "enabled"
  /\ errorMessage' = ""

\* the user opens login.html or the register in the tab
OpenPage ==
  /\ OnSession
  /\ \E target \in {"login", "register"} : NavigateTo(target)
  /\ UNCHANGED sessionStorage

\* DOMContentLoaded of login.js
LoginPageLoaded ==
  /\ OnSession
  /\ location = "login"
  /\ ~ready
  /\ IF sessionStorage.isAuthenticated = <<"true">>
     THEN NavigateTo("register")
     ELSE /\ ready' = TRUE                  \* initializeLoginPage
          /\ UNCHANGED <<location, authTimers, redirectTimers, loginBtn, errorMessage>>
  /\ UNCHANGED sessionStorage

\* DOMContentLoaded of app.js
RegisterPageLoaded ==
  /\ OnSession
  /\ location = "register"
  /\ ~ready
  /\ IF checkAuthentication
     THEN /\ ready' = TRUE                  \* the initialisation runs
          /\ UNCHANGED <<location, authTimers, redirectTimers, loginBtn, errorMessage>>
     ELSE NavigateTo("login")
  /\ UNCHANGED sessionStorage

\* the message handleLogin shows for a form it does not submit, "" for none
loginFormError(username, password, entrance) ==
  IF username = <<>> THEN "Please enter your username"
  ELSE IF password = <<>> THEN "Please enter your password"
  ELSE IF entrance = "" THEN "Please select an entrance point"
  ELSE ""

\* handleLogin: the submit handler of the login form (a disabled button
\* submits nothing)
handleLogin ==
  /\ OnSession
  /\ location = "login"
  /\ ready
  /\ loginBtn = "enabled"
  /\ \E usernameField \in UsernameInputs, passwordField \in PasswordInputs,
        entrance \in EntranceInputs :
       LET username == trim(usernameField)
           password == trim(passwordField)
       IN IF loginFormError(username, password, entrance) # ""
          THEN /\ errorMessage' = loginFormError(username, password, entrance)
               /\ UNCHANGED <<authTimers, loginBtn>>
          ELSE /\ loginBtn' = "authenticating"
               /\ authTimers' = Append(authTimers,
                                       [username |-> username, password |-> password,
                                        entrance |-> entrance])
               /\ UNCHANGED errorMessage
  /\ UNCHANGED <<location, ready, sessionStorage, redirectTimers>>

\* the input listeners of the login fields: hideError
LoginFieldInput ==
  /\ OnSession
  /\ location = "login"
  /\ ready
  /\ errorMessage' = ""
  /\ UNCHANGED <<location, ready, sessionStorage, authTimers, redirectTimers, loginBtn>>

\* handleLogin: the callback that runs 1.5 s after the submit
AuthCompletes ==
  /\ OnSession
  /\ authTimers # <<>>
  /\ LET attempt == Head(authTimers) IN
     /\ authTimers' = Tail(authTimers)
     /\ IF credentialsMatch(attempt.username, attempt.password)
        THEN /\ sessionStorage' = StoredSession(attempt.username, attempt.entrance)
             /\ loginBtn' = "success"
             /\ redirectTimers' = redirectTimers + 1
             /\ UNCHANGED errorMessage
        ELSE /\ loginBtn' = "enabled"
             /\ errorMessage' = "Invalid username or password. Please try again."
             /\ UNCHANGED <<sessionStorage, redirectTimers>>
  /\ UNCHANGED <<location, ready>>

\* handleLogin: the redirect 1 s after a successful login
RedirectAfterLogin ==
  /\ OnSession
  /\ redirectTimers > 0
  /\ NavigateTo("register")
  /\ UNCHANGED sessionStorage

\* handleLogout, after the confirm dialog of the logout button
handleLogout ==
  /\ OnSession
  /\ location = "register"
  /\ ready
  /\ sessionStorage' = NoSession             \* sessionStorage.clear()
  /\ NavigateTo("login")

SessionNext ==
  \/ OpenPage
  \/ LoginPageLoaded
  \/ RegisterPageLoaded
  \/ handleLogin
  \/ LoginFieldInput
  \/ AuthCompletes
  \/ RedirectAfterLogin
  \/ handleLogout

\* ------------------------------------------- guest.js: scanner detection
\* scannerConfig.maxInputTime
maxInputTime == 100

\* the delay of the timer that removes 'fast-input' and 'scanning'
scanningDelay == 1500

\* the inputs of class scanner-input on the guest page
ScannerFields == {"guestCardNumber", "deviceTagInput"}

\* input.value after an input event
ScannedValues == { <<"T">>, <<"T","C">> }

\* the time between two key strokes of a burst
keyInterval == 50

\* guestState as constructed; Date.dateNow() at load is far above maxInputTime
DetectInit ==
  /\ dateNow = 10 * maxInputTime
  /\ lastInputTime = 0
  /\ scannerTimeout = <<>>
  /\ scanning = {}
  /\ classified = <<>>
  /\ inputTimes = [f \in ScannerFields |-> 0]
  /\ fastTimes = [f \in ScannerFields |-> 0]

\* detectScannerInput, on an input event of the scanner field input
detectScannerInput(input, value) ==
  LET currentTime == dateNow
      timeDiff == currentTime - lastInputTime
      fast == timeDiff < maxInputTime /\ Len(value) > 1
  IN /\ OnScannerField
     /\ scanning' = IF fast THEN scanning \cup {input} ELSE scanning
     /\ scannerTimeout' = IF fast
                          THEN <<[input |-> input, due |-> currentTime + scanningDelay]>>
                          ELSE scannerTimeout
     /\ lastInputTime' = currentTime
     /\ classified' = <<[input |-> input, length |-> Len(value), fast |-> fast]>>
     /\ inputTimes' = [inputTimes EXCEPT ![input] = currentTime]
     /\ fastTimes' = IF fast THEN [fastTimes EXCEPT ![input] = currentTime] ELSE fastTimes
     /\ UNCHANGED dateNow

ScannerFieldInput ==
  \E input \in ScannerFields, value \in ScannedValues : detectScannerInput(input, value)

\* the callback of guestState.scannerTimeout: it clears the field it captured
ScanningExpires ==
  /\ OnScannerClock
  /\ scannerTimeout # <<>>
  /\ dateNow >= scannerTimeout[1].due
  /\ scanning' = scanning \ {scannerTimeout[1].input}
  /\ scannerTimeout' = <<>>
  /\ UNCHANGED <<dateNow, lastInputTime, classified, inputTimes, fastTimes>>

\* time passes: by a key interval within a burst, by the delay of the timer, or
\* up to the moment the pending timer is due, and never beyond that moment
TimePasses ==
  /\ OnScannerClock
  /\ \E later \in { dateNow + keyInterval, dateNow + scanningDelay }
                  \cup { scannerTimeout[i].due : i \in 1..Len(scannerTimeout) } :
       /\ later > dateNow
       /\ later = dateNow + keyInterval => dateNow - lastInputTime < maxInputTime
       /\ later <= MaxTime
       /\ scannerTimeout # <<>> => later <= scannerTimeout[1].due
       /\ dateNow' = later
  /\ UNCHANGED <<lastInputTime, scannerTimeout, scanning, classified, inputTimes,
                 fastTimes>>

DetectNext ==
  \/ ScannerFieldInput
  \/ ScanningExpires
  \/ TimePasses

\* ------------------------------------------------------- specifications
vars == <<regVars, wlVars, srchVars, sessVars, detVars, page, events, guestVars, modalVars>>

\* the register page is loaded (daily asset register.html)
InitRegister ==
  /\ page = "register"
  /\ events = 0
  /\ RegInit
  /\ WatchInit
  /\ SearchInit
  /\ SessionInit
  /\ DetectInit
  /\ GuestInit
  /\ ModalInit

\* the guest page is loaded (guest-management.html)
InitGuest ==
  /\ page = "guest"
  /\ events = 0
  /\ RegNotLoaded
  /\ WatchInit
  /\ SearchInit
  /\ SessionInit
  /\ DetectInit
  /\ GuestInit
  /\ ModalInit

Init == InitRegister \/ InitGuest

\* the register page: transactions, statistics, filter, search, refresh, export
SpecRegister == InitRegister /\ [][RegisterNext]_vars

\* calculateWatchlistState applied to transaction lists
SpecWatchlist == InitRegister /\ [][WatchlistNext]_vars

\* visitor handling: the guest page, and the visitor modal of the register page
VisitorNext == GuestNext \/ ModalNext

SpecVisitors == Init /\ [][VisitorNext]_vars

\* the device tag fields of the guest form and of the visitor modal
SpecScanner == Init /\ [][ScannerNext]_vars

\* searchTransactions and filterTransactions applied to transaction lists
SpecSearch == InitRegister /\ [][SearchNext]_vars

\* the demo authentication: login page, session flags, the register's check
SpecSession == InitRegister /\ [][SessionNext]_vars

\* the guest page with its timers: a callback that is due runs
SpecGuestTimers ==
  /\ InitGuest
  /\ [][GuestNext]_vars
  /\ WF_vars(processGuestTransaction)
  /\ WF_vars(resetGuestForm)

\* the scanner detection of the guest page: input events, the decay timer, time
SpecDetect == InitGuest /\ [][DetectNext]_vars
\* ------------------------------------------------------------------ claims
CountWhere(txs, Test(_)) == Cardinality({i \in DOMAIN txs : Test(txs[i])})

\* C1: after every completed handler appState.statistics counts the full
\* stored list: totalScans is its length, authorizedToday and unauthorized are
\* the numbers of transactions with isAuthorized true and false, and the two
\* add up to totalScans, whatever filter or search query is active.
C1_StatisticsCountFullList ==
  /\ statistics.totalScans = Len(transactions)
  /\ statistics.authorizedToday = CountWhere(transactions, LAMBDA t : t.isAuthorized)
  /\ statistics.unauthorized = CountWhere(transactions, LAMBDA t : ~t.isAuthorized)
  /\ statistics.authorizedToday + statistics.unauthorized = statistics.totalScans

\* a narrowing filter and a search query are active and the store has grown
C1_Witness ==
  /\ currentFilter = "unauthorized"
  /\ searchQuery # <<>>
  /\ Len(transactions) > Len(mockTransactions)
  /\ statistics.totalScans = Len(transactions)

\* C2: between two reloads every operation changes appState.transactions only
\* by inserting new transactions at the head: the list before the operation is
\* the tail end of the list after it, unchanged.
IsSuffix(old, new) ==
  /\ Len(old) <= Len(new)
  /\ SubSeq(new, Len(new) - Len(old) + 1, Len(new)) = old

C2_AppendOnlyAtHead ==
  [][refreshTimers' >= refreshTimers => IsSuffix(transactions, transactions')]_regVars

\* C3: calculateWatchlistState(T) has hasIncidents true iff T holds an
\* unauthorized transaction, incidentCount the number of them, and
\* latestUnauthorized null when there is none and otherwise the unauthorized
\* transaction with the maximum timestamp, the first in list order among equal
\* timestamps; an unauthorized transaction with the newest timestamp put at
\* the head is the latestUnauthorized.
UnauthorizedAt(txs) == {i \in DOMAIN txs : txs[i].isAuthorized = FALSE}

LatestIndex(txs) ==
  CHOOSE i \in UnauthorizedAt(txs) :
    \A j \in UnauthorizedAt(txs) :
      \/ txs[j].timestamp < txs[i].timestamp
      \/ (txs[j].timestamp = txs[i].timestamp /\ i <= j)

C3_WatchlistState ==
  /\ wlState.hasIncidents <=> (UnauthorizedAt(wlInput) # {})
  /\ wlState.incidentCount = Cardinality(UnauthorizedAt(wlInput))
  /\ UnauthorizedAt(wlInput) = {} => wlState.latestUnauthorized = <<>>
  /\ UnauthorizedAt(wlInput) # {} =>
       wlState.latestUnauthorized = <<wlInput[LatestIndex(wlInput)]>>
  /\ (/\ 1 \in UnauthorizedAt(wlInput)
      /\ \A j \in UnauthorizedAt(wlInput) : wlInput[j].timestamp <= wlInput[1].timestamp)
       => wlState.latestUnauthorized = <<wlInput[1]>>

\* two unauthorized transactions share the maximum timestamp, behind an
\* authorized one, and the first of the two is reported
C3_Witness ==
  /\ Len(wlInput) = 4
  /\ wlInput[1].isAuthorized /\ wlInput[1].timestamp = 3
  /\ ~wlInput[2].isAuthorized /\ wlInput[2].timestamp = 1
  /\ ~wlInput[3].isAuthorized /\ wlInput[3].timestamp = 2
  /\ ~wlInput[4].isAuthorized /\ wlInput[4].timestamp = 2
  /\ wlState.latestUnauthorized = <<wlInput[3]>>
  /\ wlState.incidentCount = 3

\* ------------------------------------------------- claims on visitor handling
\* is a guest with this card number, ignoring letter case, in the active list
ActiveWithCard(guests, card) ==
  \E i \in DOMAIN guests : toUpperCase(guests[i].cardNumber) = toUpperCase(card)

\* no two guests of the list have card numbers equal ignoring letter case
NoDuplicateCards(guests) ==
  \A i, j \in DOMAIN guests :
    i # j => toUpperCase(guests[i].cardNumber) # toUpperCase(guests[j].cardNumber)

\* C4: the active-guest list never holds two guests whose card numbers are
\* equal ignoring letter case: the list starts without such a pair, and no
\* commit of a form state that passes validation produces one.
C4_NoDuplicateActiveCard ==
  /\ NoDuplicateCards(activeGuests)
  /\ [][ (processGuestTransaction /\ validateGuestInput.isValid)
         => NoDuplicateCards(activeGuests') ]_vars

NotCheckedInError == "Cannot check out: Guest is not currently checked in"

\* C5: a process request in check-out mode whose card number matches no guest
\* of the active list fails validation with the not-checked-in error, starts
\* no processing and leaves the active list and the history unchanged.
C5_CheckOutUnknownCardRejected ==
  [][ (/\ currentAction = "check-out"
       /\ ~ActiveWithCard(activeGuests, guestCard)
       /\ handleProcessGuest)
      => /\ \E k \in DOMAIN validationErrors' :
              validationErrors'[k] = NotCheckedInError
         /\ isProcessing' = FALSE
         /\ activeGuests' = activeGuests
         /\ guestHistory' = guestHistory ]_vars

\* the rejected check-out of a card nobody holds, the errors on display
C5_Witness ==
  /\ currentAction = "check-out"
  /\ guestCard = TC9999
  /\ \E k \in DOMAIN validationErrors : validationErrors[k] = NotCheckedInError
  /\ ~isProcessing
  /\ activeGuests = SampleActiveGuests
  /\ guestHistory = SampleGuestHistory

\* the conditions the claim puts on a check-in
CheckInRequirements ==
  /\ Len(guestCard) >= 3
  /\ Len(guestName) >= 2
  /\ Len(guestCompany) >= 2
  /\ Len(hostEmployee) >= 2
  /\ guestPurpose # ""
  /\ Len(devices) >= 1
  /\ \A i \in DOMAIN devices : devices[i].serialNumber # <<>>

C7_CommitOnlyValidated ==
  [][ processGuestTransaction => validateGuestInput.isValid ]_vars

\* C8: after a check-out commits for a card, no guest with that card
\* (ignoring case) is in the active list, and the history holds an entry for
\* the card with status checked-out and lastVisit set by this check-out.
C8_CheckOutRecorded ==
  [][ (processGuestTransaction /\ currentAction = "check-out")
      => /\ ~ActiveWithCard(activeGuests', guestCard)
         /\ \E i \in DOMAIN guestHistory' :
              /\ toUpperCase(guestHistory'[i].cardNumber) = toUpperCase(guestCard)
              /\ guestHistory'[i].status = "checked-out"
              /\ guestHistory'[i].lastVisit = commits' ]_vars

\* no two devices of the list have tags equal ignoring letter case
NoDuplicateTags(devs) ==
  \A i, j \in DOMAIN devs :
    i # j => toUpperCase(devs[i].deviceTag) # toUpperCase(devs[j].deviceTag)

TagInList(devs, tag) ==
  \E i \in DOMAIN devs : toUpperCase(devs[i].deviceTag) = toUpperCase(tag)

\* the tags a device field can hold when it is committed
ScannedTags == { trim(value) : value \in DeviceInputs }

\* the step commits this tag to the guest form, by settle timer or Enter/Tab
GuestCommitsTag(tag) ==
  \/ /\ settleTimers # <<>>
     /\ Head(settleTimers) = tag
     /\ trim(deviceInput) = tag
     /\ SettleFires
  \/ /\ trim(deviceInput) = tag
     /\ Len(tag) >= 3
     /\ handleDeviceKeydown

\* the step commits this tag to the visitor modal
ModalCommitsTag(tag) ==
  \/ /\ modalSettleTimers # <<>>
     /\ Head(modalSettleTimers) = tag
     /\ trim(modalDeviceInput) = tag
     /\ ModalSettleFires
  \/ /\ trim(modalDeviceInput) = tag
     /\ Len(tag) >= 3
     /\ handleModalDeviceKeydown

\* C9: the device list of the guest form and of the visitor modal never holds
\* two devices with tags equal ignoring letter case, and committing a tag that
\* is already in the list leaves the list unchanged and raises exactly one
\* duplicate warning.
C9_NoDuplicateDeviceTags ==
  /\ [](NoDuplicateTags(devices) /\ NoDuplicateTags(modalDevices))
  /\ [][ \A tag \in ScannedTags :
           /\ (GuestCommitsTag(tag) /\ TagInList(devices, tag))
                => devices' = devices /\ toasts' = toasts + 1
           /\ (ModalCommitsTag(tag) /\ TagInList(modalDevices, tag))
                => modalDevices' = modalDevices /\ modalToasts' = modalToasts + 1
     ]_vars

\* DT-1001 scanned twice: one entry, one warning on display
C9_Witness ==
  /\ Len(devices) = 1
  /\ devices[1].deviceTag = DT1001
  /\ devices[1].id = DeviceId(1)
  /\ deviceCounter = 1
  /\ toasts = 1

\* C10: in every reachable state of the guest form the ids of the devices in
\* the device list are pairwise distinct, also after the list was pre-filled
\* from a checked-in guest's record and further devices were scanned.
C10_DeviceIdsDistinct ==
  \A i, j \in DOMAIN devices : i # j => devices[i].id # devices[j].id

\* the condition the claim puts on a value for an automatic commit
SettleCondition(tag) ==
  /\ Len(tag) >= 3
  /\ \/ \E prefix \in { <<"D","T","-">>, <<"G","C","-">>, <<"T","C","-">> } :
          startsWith(toUpperCase(tag), prefix)
     \/ Len(tag) >= 8

\* the step adds one device with this tag, upper-cased, at the end of the list
CommitsUpperCased(old, new, tag) ==
  /\ Len(new) = Len(old) + 1
  /\ SubSeq(new, 1, Len(old)) = old
  /\ new[Len(new)].deviceTag = toUpperCase(tag)

\* C11: an input event of a device tag field starts a settle timer exactly
\* when the trimmed value has at least 3 characters and a scanner prefix
\* (ignoring case) or at least 8 characters, and commits nothing itself; the
\* timer commits only if the trimmed value of the field is still the value of
\* its input event, the committed tag is upper-cased and the input cleared; a
\* timer whose value has changed commits nothing and leaves the field alone.
C11_SettleTimerCommit ==
  /\ [](/\ \A k \in DOMAIN settleTimers : SettleCondition(settleTimers[k])
        /\ \A k \in DOMAIN modalSettleTimers : SettleCondition(modalSettleTimers[k]))
  /\ [][ /\ ScannerDeviceInput
            => /\ devices' = devices
               /\ IF SettleCondition(trim(deviceInput'))
                  THEN settleTimers' = Append(settleTimers, trim(deviceInput'))
                  ELSE settleTimers' = settleTimers
         /\ ScannerModalDeviceInput
            => /\ modalDevices' = modalDevices
               /\ IF SettleCondition(trim(modalDeviceInput'))
                  THEN modalSettleTimers' =
                         Append(modalSettleTimers, trim(modalDeviceInput'))
                  ELSE modalSettleTimers' = modalSettleTimers
         /\ SettleFires
            => IF trim(deviceInput) = Head(settleTimers)
               THEN /\ deviceInput' = <<>>
                    /\ \/ CommitsUpperCased(devices, devices', Head(settleTimers))
                       \/ TagInList(devices, Head(settleTimers)) /\ devices' = devices
               ELSE devices' = devices /\ deviceInput' = deviceInput
         /\ ModalSettleFires
            => IF trim(modalDeviceInput) = Head(modalSettleTimers)
               THEN /\ modalDeviceInput' = <<>>
                    /\ \/ CommitsUpperCased(modalDevices, modalDevices',
                                            Head(modalSettleTimers))
                       \/ /\ TagInList(modalDevices, Head(modalSettleTimers))
                          /\ modalDevices' = modalDevices
               ELSE modalDevices' = modalDevices /\ modalDeviceInput' = modalDeviceInput
     ]_vars

\* one input event and its settle timer: the scan is committed upper-cased,
\* the field is cleared and no timer is left
C11_Witness ==
  /\ page = "guest"
  /\ events = 1
  /\ Len(devices) = 1
  /\ devices[1].deviceTag = DT1001
  /\ deviceInput = <<>>
  /\ settleTimers = <<>>

\* C12: Enter or Tab in a device tag field commits the trimmed value at once
\* exactly when it has at least 3 characters, and clears the input; a tag not
\* yet in the list gives one new entry and no warning.  The settle timers of
\* the scan's input events, still pending at that moment, find the field
\* empty when they run and add neither an entry nor a warning.
C12_TerminatorCommit ==
  [][ /\ handleDeviceKeydown
         => IF Len(trim(deviceInput)) >= 3
            THEN /\ deviceInput' = <<>>
                 /\ IF TagInList(devices, trim(deviceInput))
                    THEN devices' = devices /\ toasts' = toasts + 1
                    ELSE /\ CommitsUpperCased(devices, devices', trim(deviceInput))
                         /\ toasts' = toasts
            ELSE devices' = devices /\ toasts' = toasts /\ deviceInput' = deviceInput
      /\ handleModalDeviceKeydown
         => IF Len(trim(modalDeviceInput)) >= 3
            THEN /\ modalDeviceInput' = <<>>
                 /\ IF TagInList(modalDevices, trim(modalDeviceInput))
                    THEN modalDevices' = modalDevices /\ modalToasts' = modalToasts + 1
                    ELSE /\ CommitsUpperCased(modalDevices, modalDevices',
                                              trim(modalDeviceInput))
                         /\ modalToasts' = modalToasts
            ELSE /\ modalDevices' = modalDevices
                 /\ modalToasts' = modalToasts
                 /\ modalDeviceInput' = modalDeviceInput
      /\ (SettleFires /\ deviceInput = <<>>)
         => devices' = devices /\ toasts' = toasts
      /\ (ModalSettleFires /\ modalDeviceInput = <<>>)
         => modalDevices' = modalDevices /\ modalToasts' = modalToasts
    ]_vars

\* an input event and the terminator: one entry, no warning, the field
\* cleared, the timer of the input event still pending
C12_Witness ==
  /\ page = "guest"
  /\ events = 2
  /\ Len(devices) = 1
  /\ devices[1].deviceTag = LAP98765
  /\ deviceInput = <<>>
  /\ settleTimers = << LAP98765 >>
  /\ toasts = 0

\* C13: a call of the debounced search handler cancels the pending older
\* call, so at most one call is pending at any time; a burst of input events
\* runs the search once, after the last event of the burst, with the value of
\* that last event, and no search for an earlier value is applied after it.
C13_DebounceCoalesces ==
  /\ [](searchTimer <= 1)
  /\ [][ /\ TraceAssetInput => searchTimer' = 1
         /\ handleSearchInput
            => /\ searchTimer' = 0
               /\ searchQuery' = toLowerCase(trim(traceAsset)) ]_vars

\* the one search of a burst has run, for the value the last input event
\* left in the field, and no call is pending
C13_Witness ==
  /\ searchTimer = 0
  /\ traceAsset = <<"M","A","K"," ">>
  /\ searchQuery = <<"m","a","k">>
  /\ refreshTimers = 0
  /\ exportTimers = 0
  /\ Added = 0

\* C14: when a manual refresh completes, the store is exactly the seed data
\* set in seed order, whatever was appended before or while the refresh was
\* pending; the search query is cleared and the filter stays as it was.
C14_RefreshRestoresSeed ==
  [][ RefreshCompletes
      => /\ transactions' = mockTransactions
         /\ searchQuery' = <<>>
         /\ currentFilter' = currentFilter ]_vars

\* a refresh is pending while the store holds an appended transaction, a
\* search is active and the filter is not 'all': the state its completion
\* replaces by the seed data set
C14_Witness ==
  /\ refreshTimers = 1
  /\ Added = 1
  /\ transactions # mockTransactions
  /\ searchQuery # <<>>
  /\ currentFilter = "unauthorized"

\* the transactions of the list at these places, in list order
RECURSIVE Restrict(_, _)
Restrict(txs, places) ==
  IF txs = <<>> THEN <<>>
  ELSE Restrict(SubSeq(txs, 1, Len(txs) - 1), places)
         \o (IF Len(txs) \in places THEN <<txs[Len(txs)]>> ELSE <<>>)

\* the transaction is of the filter kind
OfKind(t, kind) ==
  \/ kind = "all"
  \/ kind = "authorized" /\ t.isAuthorized
  \/ kind = "unauthorized" /\ ~t.isAuthorized
  \/ kind = "in" /\ t.type = "IN"
  \/ kind = "out" /\ t.type = "OUT"

\* the asset tag or the card holder contains the query, ignoring case
Matches(t, query) ==
  \/ includes(toUpperCase(t.assetTag), toUpperCase(query))
  \/ includes(toUpperCase(t.cardHolder), toUpperCase(query))

\* C15: for every list T, query q and filter kind f, filtering the search
\* result and searching the filter result both give exactly the transactions
\* of T that are of kind f and contain q in the asset tag or the card holder
\* ignoring case; searching the search result again changes nothing.
C15_SearchFilterIntersection ==
  LET both == { i \in DOMAIN srchInput :
                  OfKind(srchInput[i], srchFilter) /\ Matches(srchInput[i], srchQuery) }
      found == { i \in DOMAIN srchInput : Matches(srchInput[i], srchQuery) }
  IN /\ searchThenFilter = Restrict(srchInput, both)
     /\ filterThenSearch = Restrict(srchInput, both)
     /\ searchTwice = Restrict(srchInput, found)

\* the query matches one transaction of the list and the filter kind the
\* other one: each narrows the list, and the compositions give the empty
\* intersection
C15_Witness ==
  /\ Len(srchInput) = 2
  /\ srchQuery = <<"n","a","k">>
  /\ srchFilter = "out"
  /\ Len(searchTwice) = 1
  /\ Len(filterTransactions(srchInput, srchFilter)) = 1
  /\ searchThenFilter = <<>>
  /\ filterThenSearch = <<>>

\* C16: for every filter kind, 'all' included, filterTransactions returns
\* exactly the stored transactions of that kind in their stored order, and a
\* filter change, a search, Escape or an export (each renders or exports the
\* table) leaves appState.transactions as it was, contents and order.
C16_FilteringDoesNotMutate ==
  /\ [](\A kind \in Filters :
          filterTransactions(transactions, kind) =
            Restrict(transactions,
                     { i \in DOMAIN transactions : OfKind(transactions[i], kind) }))
  /\ [][ (handleFilterChange \/ handleSearchInput \/ EscapeKey \/ ExportCompletes)
         => transactions' = transactions ]_vars

\* C17: the unauthorized list returned by calculateWatchlistState holds all
\* unauthorized transactions of the input, sorted by timestamp descending, and
\* latestUnauthorized is the first element of that list (none when empty).
C17_UnauthorizedListSorted ==
  LET returned == wlState.unauthorizedTransactions IN
  /\ Len(returned) = Cardinality(UnauthorizedAt(wlInput))
  /\ \A i \in UnauthorizedAt(wlInput) : \E k \in DOMAIN returned : returned[k] = wlInput[i]
  /\ \A k \in 1..(Len(returned) - 1) : returned[k].timestamp >= returned[k + 1].timestamp
  /\ wlState.latestUnauthorized = IF returned = <<>> THEN <<>> ELSE <<returned[1]>>

\* the format NV-AAA-AAA-9999 of the claim, letters in any case
WellFormedId(s) ==
  /\ Len(s) = 15
  /\ toUpperCase(<<s[1], s[2]>>) = <<"N","V">>
  /\ <<s[3], s[7], s[11]>> = <<"-","-","-">>
  /\ \A i \in {4, 5, 6, 8, 9, 10} : IsLetter(s[i])
  /\ \A i \in {12, 13, 14, 15} : s[i] \in Digits

\* the transaction handleProcessTransaction is to insert for these entries
EnteredTransaction(t, cardField, deviceField) ==
  /\ WellFormedId(trim(cardField))
  /\ WellFormedId(trim(deviceField))
  /\ t.cardId = trim(cardField)
  /\ t.assetTag = trim(deviceField)
  /\ t.type = (IF currentMode = "check-in" THEN "IN" ELSE "OUT")
  /\ t.isAuthorized = TRUE
  /\ t.status = "authorized"

\* C18: processing on the register validates before it changes anything: the
\* handler changes the transaction list, the statistics or the search state
\* only for a well-formed card id and device tag, and then inserts exactly
\* one transaction at the head of the list, with the entered id and tag, type
\* IN in check-in mode and OUT in check-out mode, authorized.
C18_ProcessValidatesFirst ==
  [][ handleProcessTransaction
      => \E cardField \in FieldInputs, deviceField \in FieldInputs :
           /\ Len(transactions') = Len(transactions) + 1
           /\ EnteredTransaction(transactions'[1], cardField, deviceField)
           /\ Tail(transactions') = transactions ]_vars


\* the session holds the flag isAuthenticated = 'true'
FlagSet(storage) == storage.isAuthenticated = <<"true">>

\* C19: the flag isAuthenticated becomes 'true' only when the callback of a
\* login attempt with username admin, password admin and a selected entrance
\* runs, and it stays until handleLogout; a submit of an incomplete form and
\* the callback of an attempt with other credentials leave sessionStorage as
\* it is; handleLogout removes every item; the register is initialised only
\* with the flag set and its load handler redirects to the login page
\* otherwise; the load handler of the login page redirects to the register
\* when the flag is set.
C19_SessionFlag ==
  /\ [](location = "register" /\ ready => FlagSet(sessionStorage))
  /\ [][ /\ (sessionStorage' # sessionStorage /\ FlagSet(sessionStorage')) =>
              /\ AuthCompletes
              /\ Head(authTimers).username = admin
              /\ Head(authTimers).password = admin
              /\ Head(authTimers).entrance # ""
              /\ sessionStorage' = StoredSession(admin, Head(authTimers).entrance)
         /\ (FlagSet(sessionStorage) /\ ~FlagSet(sessionStorage')) => handleLogout
         /\ handleLogin => UNCHANGED sessionStorage
         /\ (AuthCompletes /\ ~(/\ Head(authTimers).username = admin
                                /\ Head(authTimers).password = admin)) =>
              UNCHANGED sessionStorage
         /\ handleLogout => sessionStorage' = NoSession /\ location' = "login"
         /\ RegisterPageLoaded =>
              IF FlagSet(sessionStorage)
              THEN ready' /\ location' = "register"
              ELSE ~ready' /\ location' = "login"
         /\ (LoginPageLoaded /\ FlagSet(sessionStorage)) =>
              ~ready' /\ location' = "register"
       ]_vars

\* a login at the other entrance after a logout has just succeeded
C19_Witness ==
  /\ location = "login"
  /\ loginBtn = "success"
  /\ redirectTimers = 1
  /\ sessionStorage = StoredSession(admin, "pike-house")

\* the form holds the details and the devices of the guest
Prefilled(guest, name, company, purpose, host, devs) ==
  /\ name = guest.name
  /\ company = guest.company
  /\ purpose = guest.purpose
  /\ host = guest.hostEmployee
  /\ devs = guest.devices

\* C20: when the automatic switch after a duplicate check-in takes place for
\* the card of a checked-in guest, the form is in check-out mode, holds the
\* details and the devices of that guest, and passes the validation of a
\* check-out.
C20_AutoSwitchPrefills ==
  [][ (AutoSwitchFires /\ FindActiveGuest(guestCard) # <<>>) =>
        /\ currentAction' = "check-out"
        /\ Prefilled(FindActiveGuest(guestCard)[1], guestName', guestCompany',
                     guestPurpose', hostEmployee', devices')
        /\ validateGuestInput'.isValid
    ]_vars

\* C21: guestHistory holds at most one entry per card number, card numbers
\* compared ignoring letter case as checkCardStatus compares them.
C21_HistoryDeduplicated ==
  \A i, j \in DOMAIN guestHistory :
    toUpperCase(guestHistory[i].cardNumber) = toUpperCase(guestHistory[j].cardNumber)
      => i = j

\* the form as resetGuestForm leaves it
FormIsReset ==
  /\ guestCard = <<>>
  /\ devices = <<>>
  /\ currentAction = "check-in"

\* C26: while a guest transaction is being processed no further process
\* request is accepted: the flag is set exactly while one commit callback is
\* pending, a request is handled only while the flag is clear, and the
\* callback commits one transaction and clears the flag; processing always
\* ends, and the reset that follows a commit leaves an empty card number, an
\* empty device list and check-in mode.
C26_ProcessingSerialised ==
  /\ [](commitTimers <= 1 /\ (isProcessing <=> commitTimers = 1))
  /\ [][ handleProcessGuest => ~isProcessing ]_vars
  /\ [][ processGuestTransaction =>
           /\ commits' = commits + 1
           /\ commitTimers' = 0
           /\ ~isProcessing'
           /\ resetTimers' = resetTimers + 1 ]_vars
  /\ [][ resetGuestForm => FormIsReset' ]_vars
  /\ (isProcessing ~> ~isProcessing)
  /\ (resetTimers > 0 ~> (resetTimers = 0 /\ FormIsReset))

\* the form after the reset that followed a committed transaction
C26_Witness ==
  /\ commits = 1
  /\ ~isProcessing
  /\ resetTimers = 0
  /\ FormIsReset
  /\ cardInput = <<>>

\* C29: the automatic switch changes the mode only while the card field
\* still holds the card of a checked-in guest.
C29_AutoSwitchOnlyForTriggeringCard ==
  [][ (AutoSwitchFires /\ currentAction' # currentAction)
        => FindActiveGuest(trim(cardInput)) # <<>> ]_vars

\* the guest record of the check-in committed last
LastCheckedIn == activeGuests[Len(activeGuests)]

\* C28: the reset scheduled by a committed check-in discards only that
\* transaction: when it runs, the card number of the form is still the one
\* that was committed, so no card number entered since is lost.
C28_ResetKeepsLaterInput ==
  [][ (resetGuestForm /\ Len(activeGuests) > Len(SampleActiveGuests))
        => guestCard = LastCheckedIn.cardNumber ]_vars

\* C30: validateCardIdFormat accepts the cardId and validateDeviceTagFormat
\* accepts the assetTag of every transaction in the store.
C30_StoredIdsWellFormed ==
  \A i \in DOMAIN transactions :
    /\ validateCardIdFormat(transactions[i].cardId)
    /\ validateDeviceTagFormat(transactions[i].assetTag)

\* how often a transaction occurs in a list
Occurrences(txs, t) == Cardinality({ i \in DOMAIN txs : txs[i] = t })

\* C25: for a list whose records all have type IN or OUT, every transaction
\* occurs in filter(T,'in') and filter(T,'out') together as often as in T, no
\* transaction occurs in both, and neither holds a transaction that is not in T.
C25_InOutPartition ==
  LET ins  == filterTransactions(srchInput, "in")
      outs == filterTransactions(srchInput, "out")
      all  == { srchInput[i] : i \in DOMAIN srchInput }
             \cup { ins[i] : i \in DOMAIN ins } \cup { outs[i] : i \in DOMAIN outs }
  IN (\A i \in DOMAIN srchInput : srchInput[i].type \in {"IN", "OUT"})
     => \A t \in all :
          /\ Occurrences(ins, t) + Occurrences(outs, t) = Occurrences(srchInput, t)
          /\ Occurrences(ins, t) = 0 \/ Occurrences(outs, t) = 0

\* a list with one IN and one OUT record, split one to each side
C25_Witness ==
  /\ Len(srchInput) = 2
  /\ srchInput[1].type = "IN"
  /\ srchInput[2].type = "OUT"
  /\ Len(filterTransactions(srchInput, "in")) = 1
  /\ Len(filterTransactions(srchInput, "out")) = 1

\* the pieces of a text between the given separator places, in order
Pieces(text, places) ==
  LET cut(k) == IF k = 0 THEN 0
                ELSE IF k = Cardinality(places) + 1 THEN Len(text) + 1
                ELSE CHOOSE i \in places : Cardinality({ j \in places : j < i }) = k - 1
  IN [k \in 1..(Cardinality(places) + 1) |-> SubSeq(text, cut(k - 1) + 1, cut(k) - 1)]

\* the lines of a text, each without its line feed; the text ends with one
Lines(text) ==
  LET all == Pieces(text, { i \in DOMAIN text : text[i] = "\n" })
  IN SubSeq(all, 1, Len(all) - 1)

\* the fields of a line: split at the commas outside double quotes, the
\* quotes dropped
Fields(line) ==
  LET quoted(i) == Cardinality({ j \in 1..(i - 1) : line[j] = "\"" }) % 2 = 1
      commas == { i \in DOMAIN line : line[i] = "," /\ ~quoted(i) }
      raw == Pieces(line, commas)
  IN [k \in DOMAIN raw |-> SelectSeq(raw[k], LAMBDA c : c # "\"")]

ParsedRows(text) ==
  LET lines == Lines(text)
  IN [k \in DOMAIN lines |-> Fields(lines[k])]

CsvHeader ==
  << <<"T","I","M","E">>, <<"C","A","R","D"," ","H","O","L","D","E","R">>,
     <<"C","A","R","D"," ","I","D">>, <<"A","S","S","E","T"," ","T","A","G">>,
     <<"T","Y","P","E">>, <<"S","T","A","T","U","S">> >>

\* the row carries card holder, card ID, asset tag, type and authorisation of t
RowOf(row, t) ==
  /\ Len(row) = 6
  /\ row[2] = t.cardHolder
  /\ row[3] = t.cardId
  /\ row[4] = t.assetTag
  /\ row[5] = (IF t.type = "IN" THEN <<"I","N">> ELSE <<"O","U","T">>)
  /\ row[6] = (IF t.isAuthorized THEN <<"A","U","T","H","O","R","I","Z","E","D">>
               ELSE <<"U","N","A","U","T","H","O","R","I","Z","E","D">>)

\* C24: the exported text, split into lines and into fields at the commas
\* outside quotes, is the header row TIME, CARD HOLDER, CARD ID, ASSET TAG,
\* TYPE, STATUS followed by one row per transaction of the list that is of
\* the filter kind; the rows are in descending timestamp order and each row
\* carries the card ID, asset tag, type and authorisation of its transaction.
C24_ExportRoundTrip ==
  LET rows == ParsedRows(exportedContent(srchInput, srchFilter))
      kept == { i \in DOMAIN srchInput : OfKind(srchInput[i], srchFilter) }
  IN /\ Len(rows) = 1 + Cardinality(kept)
     /\ rows[1] = CsvHeader
     /\ \E place \in [2..Len(rows) -> kept] :
          /\ \A k, l \in 2..Len(rows) : k # l => place[k] # place[l]
          /\ \A k \in 2..Len(rows) : RowOf(rows[k], srchInput[place[k]])
          /\ \A k, l \in 2..Len(rows) :
               k < l => srchInput[place[k]].timestamp >= srchInput[place[l]].timestamp

\* two transactions that are not in timestamp order, both exported
C24_Witness ==
  /\ Len(srchInput) = 2
  /\ srchInput[1].timestamp < srchInput[2].timestamp
  /\ srchInput[1].isAuthorized # srchInput[2].isAuthorized
  /\ srchFilter = "out"
  /\ Len(ParsedRows(exportedContent(srchInput, srchFilter))) = 3

\* the rows are the transactions of the store that contain the query and are
\* of the filter kind, each once, newest first
ShowsMatches(rows, store, query, kind) ==
  /\ \A k \in 1..(Len(rows) - 1) : rows[k].timestamp >= rows[k + 1].timestamp
  /\ \A i \in DOMAIN rows : Matches(rows[i], query) /\ OfKind(rows[i], kind)
  /\ \A i \in DOMAIN store :
       (Matches(store[i], query) /\ OfKind(store[i], kind))
         => Occurrences(rows, store[i]) = Occurrences(store, store[i])
  /\ \A i \in DOMAIN rows : Occurrences(store, rows[i]) > 0

\* C27: while no debounced search is pending, appState.searchQuery is the
\* trimmed, lower-cased content of the search box and the table shows the
\* transactions of the store that match the query and the current filter,
\* newest first; an auto-refresh tick leaves query and filter as they are.
C27_TableFollowsSearchAndFilter ==
  /\ [](searchTimer = 0 =>
          /\ searchQuery = toLowerCase(trim(traceAsset))
          /\ ShowsMatches(tableBody, transactions, searchQuery, currentFilter))
  /\ [][ processAutoRefresh => UNCHANGED <<searchQuery, currentFilter>> ]_vars

\* an auto-refresh tick has arrived during a search with a narrowing filter
C27_Witness ==
  /\ searchTimer = 0
  /\ searchQuery = <<"m","a","k">>
  /\ currentFilter = "unauthorized"
  /\ Added = 1
  /\ Len(tableBody) = 2

\* C23: an input event on a scanner field is classified as fast exactly when
\* less than 100 ms have passed since the previous input event on the same
\* field and the field's value is longer than one character
C23_FastIffQuickOnSameField ==
  [][ \A input \in ScannerFields :
        (\E value \in ScannedValues : detectScannerInput(input, value))
          => (classified'[1].fast <=>
                /\ dateNow - inputTimes[input] < maxInputTime
                /\ classified'[1].length > 1) ]_vars

\* C22: a field that shows the scanning flag had its latest fast input at most
\* 1.5 s ago, whatever happened on the other scanner fields since
C22_ScanningFlagDecays ==
  \A input \in scanning : dateNow <= fastTimes[input] + scanningDelay
====
